---- MODULE Spec2Model ----
\* A model of the NTP clock filter of ntp-proto (src/ntp-proto/src/filter.rs):
\* the per-peer measurement register, the reachability register, the clock
\* filter, and the packet acceptance gate with its poll scheduler.
\*
\* Fixed-point scale.  The program keeps NtpTimestamp in an unsigned and
\* NtpDuration in a signed 64-bit word with 32 fraction bits.  The model keeps
\* the same structure in a narrower word: DurationBits bits in all, FracBits
\* of them fraction bits.  Timestamp arithmetic wraps modulo 2^DurationBits,
\* duration arithmetic saturates, divisions truncate toward zero.
EXTENDS Integers, Sequences, FiniteSets, TLC

----------------------------------------------------------------------------
\* Fixed-point time types (crate::NtpDuration, crate::NtpTimestamp)

DurationBits == 27
FracBits == 8

Modulus == 2 ^ DurationBits
DurationMax == 2 ^ (DurationBits - 1) - 1
DurationMin == -(2 ^ (DurationBits - 1))

\* NtpDuration::ZERO, NtpDuration::ONE (one second)
ZERO == 0
ONE == 2 ^ FracBits
\* NtpDuration::MAX_DISPERSION (16 s) and NtpDuration::MIN_DISPERSION (0.005 s)
MAX_DISPERSION == 16 * ONE
MIN_DISPERSION == (5 * ONE) \div 1000

\* NtpTimestamp::ZERO
TS_ZERO == 0

\* Rust's integer division truncates toward zero; \div floors.
TruncDiv(a, b) == IF a >= 0 THEN a \div b ELSE -((-a) \div b)

Saturate(x) == IF x > DurationMax THEN DurationMax
               ELSE IF x < DurationMin THEN DurationMin ELSE x

\* NtpDuration + NtpDuration, NtpDuration - NtpDuration
DurAdd(a, b) == Saturate(a + b)
DurSub(a, b) == Saturate(a - b)
\* NtpDuration * integer, NtpDuration / integer
DurMul(a, k) == Saturate(a * k)
DurDiv(a, k) == TruncDiv(a, k)
DurMax(a, b) == IF a >= b THEN a ELSE b
DurMin(a, b) == IF a <= b THEN a ELSE b

\* NtpTimestamp - NtpTimestamp: the wrapping difference read as a signed word
TsSub(a, b) ==
    LET d == (a - b) % Modulus
    IN  IF d >= Modulus \div 2 THEN d - Modulus ELSE d

\* NtpTimestamp + NtpDuration wraps
TsAdd(t, d) == (t + d) % Modulus

\* NtpDuration::from_exponent(e): 2^e seconds
from_exponent(e) ==
    IF e >= 0
    THEN (IF e + FracBits >= DurationBits - 1 THEN DurationMax ELSE ONE * (2 ^ e))
    ELSE (IF -e > FracBits THEN 0 ELSE ONE \div (2 ^ (-e)))

\* NtpLeapIndicator::is_synchronized
LeapIndicators == {"NoWarning", "Leap61", "Leap59", "Unknown"}
is_synchronized(leap) == leap # "Unknown"

----------------------------------------------------------------------------
\* Constants of filter.rs

MAX_STRATUM == 16
MAX_DISTANCE == ONE
BURST_INTERVAL == DurMul(ONE, 2)
RegisterSize == 8

\* frequency tolerance (15 ppm)
multiply_by_phi(duration) == DurDiv(DurMul(duration, 15), 1000000)

----------------------------------------------------------------------------
\* FilterTuple

FilterTuple(offset, delay, dispersion, time) ==
    [offset |-> offset, delay |-> delay, dispersion |-> dispersion, time |-> time]

DUMMY == FilterTuple(ZERO, MAX_DISPERSION, MAX_DISPERSION, TS_ZERO)

is_dummy(t) == t = DUMMY

\* PeerStatistics::default
DefaultStatistics == [offset |-> ZERO, delay |-> ZERO, dispersion |-> ZERO, jitter |-> 0]

----------------------------------------------------------------------------
\* LastMeasurements

\* LastMeasurements::new
NewRegister == [i \in 1..RegisterSize |-> DUMMY]

\* As a plausible slip: the correction added to dummies as well
RECURSIVE ShiftLoop_CorrectAll(_, _, _, _)
ShiftLoop_CorrectAll(register, current, dispersion_correction, i) ==
    IF i > RegisterSize THEN register
    ELSE LET tuple == [register[i] EXCEPT
                         !.dispersion = DurAdd(@, dispersion_correction)]
         IN  ShiftLoop_CorrectAll([register EXCEPT ![i] = current],
                                  tuple, dispersion_correction, i + 1)

\* The loop of shift_and_insert: slot i (1-based here) first receives the
\* dispersion correction unless it is a dummy, then is swapped with `current`.
RECURSIVE ShiftLoop(_, _, _, _)
ShiftLoop(register, current, dispersion_correction, i) ==
    IF i > RegisterSize THEN register
    ELSE LET tuple == IF ~is_dummy(register[i])
                      THEN [register[i] EXCEPT
                              !.dispersion = DurAdd(@, dispersion_correction)]
                      ELSE register[i]
         IN  ShiftLoop([register EXCEPT ![i] = current],
                       tuple, dispersion_correction, i + 1)

\* As a plausible slip: the new tuple written over slot 0, nothing moved
shift_and_insert_NoShift(register, current, dispersion_correction) ==
    [register EXCEPT ![1] = current]

\* Insert the new tuple at index 0, move all other tuples one to the right.
shift_and_insert(register, current, dispersion_correction) ==
    ShiftLoop(register, current, dispersion_correction, 1)

----------------------------------------------------------------------------
\* Reach

\* As a plausible slip: the register shifted the wrong way
ReachPollShiftRight(r) == r \div 2

\* Reach::poll: self.0 <<= 1 on a u8
ReachPoll(r) == (r * 2) % 256

\* As a plausible slip: a received packet leaves the register alone
ReachReceivedNoop(r) == r

\* Reach::received_packet: self.0 |= 1
ReachReceived(r) == IF r % 2 = 1 THEN r ELSE r + 1

\* Reach::is_reachable
is_reachable(r) == r # 0

----------------------------------------------------------------------------
\* TemporaryList

\* Insert t behind every element whose delay is not larger: the order that
\* a stable sort by delay gives to the elements taken in register order.
RECURSIVE InsertByDelay(_, _)
InsertByDelay(sorted, t) ==
    IF sorted = <<>> THEN <<t>>
    ELSE IF t.delay < Head(sorted).delay THEN <<t>> \o sorted
    ELSE <<Head(sorted)>> \o InsertByDelay(Tail(sorted), t)

RECURSIVE SortPrefix(_, _)
SortPrefix(register, n) ==
    IF n = 0 THEN <<>> ELSE InsertByDelay(SortPrefix(register, n - 1), register[n])

\* TemporaryList::from_clock_filter_contents: a copy sorted by delay (stable)
from_clock_filter_contents(register) == SortPrefix(register, Len(register))

\* TemporaryList::smallest_delay
smallest_delay_of(sorted) == sorted[1]

\* the dummies at the end of the sorted list (iter().rev().take_while(is_dummy))
RECURSIVE num_invalid_tuples(_, _)
num_invalid_tuples(sorted, n) ==
    IF n = 0 THEN 0
    ELSE IF is_dummy(sorted[n]) THEN 1 + num_invalid_tuples(sorted, n - 1)
    ELSE 0

\* TemporaryList::valid_tuples
valid_tuples(sorted) ==
    SubSeq(sorted, 1, Len(sorted) - num_invalid_tuples(sorted, Len(sorted)))

\* TemporaryList::dispersion: sum of dispersion_i / 2^(i+1), i from 0
RECURSIVE DispersionFold(_, _)
DispersionFold(sorted, n) ==
    IF n = 0 THEN ZERO
    ELSE DurAdd(DispersionFold(sorted, n - 1), DurDiv(sorted[n].dispersion, 2 ^ n))

\* As a plausible slip: the terms summed without their weights
RECURSIVE DispersionSum(_, _)
DispersionSum(sorted, n) ==
    IF n = 0 THEN ZERO ELSE DurAdd(DispersionSum(sorted, n - 1), sorted[n].dispersion)

dispersion_of_Unweighted(sorted) == DispersionSum(sorted, Len(sorted))

dispersion_of(sorted) == DispersionFold(sorted, Len(sorted))

\* floor of the square root, by bisection
RECURSIVE SqrtBetween(_, _, _)
SqrtBetween(n, lo, hi) ==
    IF hi - lo <= 1 THEN lo
    ELSE LET mid == (lo + hi) \div 2
         IN  IF mid * mid <= n THEN SqrtBetween(n, mid, hi) ELSE SqrtBetween(n, lo, mid)

Sqrt(n) == IF n = 0 THEN 0 ELSE SqrtBetween(n, 0, 46341)

RECURSIVE SumSquares(_, _, _)
SumSquares(tuples, smallest_delay, n) ==
    IF n = 0 THEN 0
    ELSE LET d == DurSub(tuples[n].offset, smallest_delay.offset)
         IN  SumSquares(tuples, smallest_delay, n - 1) + d * d

\* TemporaryList::jitter_help for a non-empty slice.  The program computes in
\* f64 seconds; the model keeps the value in duration units, rounded down.
\* With one tuple the divisor is 0.0: 0.0/0.0 is NaN and NaN.max(p) is p;
\* x/0.0 for x > 0 is +infinity.
jitter_help(tuples, smallest_delay, system_precision) ==
    LET root_mean_square == Sqrt(SumSquares(tuples, smallest_delay, Len(tuples)))
    IN  IF Len(tuples) = 1
        THEN (IF root_mean_square = 0 THEN system_precision ELSE DurationMax)
        ELSE DurMax(root_mean_square \div (Len(tuples) - 1), system_precision)

----------------------------------------------------------------------------
\* FilterTuple::from_packet

Modes == {"Client", "Server", "Broadcast"}

\* As a plausible slip: the delay left unclamped
from_packet_delay_Unclamped(system_precision, delta1, delta2) == DurSub(delta1, delta2)

\* let delay = system_precision.max(delta1 - delta2)
from_packet_delay(system_precision, delta1, delta2) ==
    DurMax(system_precision, DurSub(delta1, delta2))

\* As a plausible slip: the sample stamped with the destination timestamp
from_packet_time_Destination(destination_timestamp, local_clock_time) ==
    destination_timestamp

\* time: local_clock_time
from_packet_time(destination_timestamp, local_clock_time) == local_clock_time

\* The non-broadcast branch of from_packet
from_packet(packet, system_precision, destination_timestamp, local_clock_time) ==
    LET packet_precision == from_exponent(packet.precision)
        offset1 == TsSub(packet.receive_timestamp, packet.origin_timestamp)
        offset2 == TsSub(destination_timestamp, packet.transmit_timestamp)
        offset  == DurDiv(DurAdd(offset1, offset2), 2)
        delta1  == TsSub(destination_timestamp, packet.origin_timestamp)
        delta2  == TsSub(packet.transmit_timestamp, packet.receive_timestamp)
        delay   == from_packet_delay(system_precision, delta1, delta2)
        dispersion == DurAdd(DurAdd(packet_precision, system_precision),
                             multiply_by_phi(delta1))
    IN  FilterTuple(offset, delay, dispersion,
                    from_packet_time(destination_timestamp, local_clock_time))

\* from_packet reaches todo!() for a broadcast packet
from_packet_is_todo(packet) == packet.mode = "Broadcast"

----------------------------------------------------------------------------
\* Peer::poll_update

MIN_POLL == 4
MAX_POLL == 17

\* As a plausible slip: the lower bound not applied
clamp_ntp_duration_NoLower(lower_bound, value, upper_bound) == DurMin(value, upper_bound)

\* As a plausible slip: the upper bound applied last
clamp_ntp_duration_UpperLast(lower_bound, value, upper_bound) ==
    DurMin(DurMax(value, lower_bound), upper_bound)

clamp_ntp_duration(lower_bound, value, upper_bound) ==
    DurMax(DurMin(value, upper_bound), lower_bound)

\* As a plausible slip: a burst poll scheduled from the clock once the
\* deadline has passed, as outside a burst
poll_update_BurstFloored(p_burst, p_next_date, p_out_date, p_last_poll, local_clock_time, poll_interval) ==
    LET new_host_poll == clamp_ntp_duration(from_exponent(MIN_POLL), poll_interval,
                                            from_exponent(MAX_POLL))
        floor_date(d) == IF d < local_clock_time THEN TsAdd(local_clock_time, ONE) ELSE d
    IN  IF p_burst > 0
        THEN [host_poll |-> new_host_poll,
              next_date |-> floor_date(TsAdd(p_next_date, BURST_INTERVAL))]
        ELSE LET offset == clamp_ntp_duration(from_exponent(MIN_POLL), new_host_poll,
                                              from_exponent(p_last_poll))
             IN  [host_poll |-> new_host_poll,
                  next_date |-> floor_date(TsAdd(p_out_date, offset))]

\* poll_update without its closing test against the clock
poll_update_NoFloor(p_burst, p_next_date, p_out_date, p_last_poll, local_clock_time, poll_interval) ==
    LET new_host_poll == clamp_ntp_duration(from_exponent(MIN_POLL), poll_interval,
                                            from_exponent(MAX_POLL))
    IN  IF p_burst > 0
        THEN IF p_next_date < local_clock_time
             THEN [host_poll |-> new_host_poll, next_date |-> p_next_date]
             ELSE [host_poll |-> new_host_poll,
                   next_date |-> TsAdd(p_next_date, BURST_INTERVAL)]
        ELSE LET offset == clamp_ntp_duration(from_exponent(MIN_POLL), new_host_poll,
                                              from_exponent(p_last_poll))
             IN  [host_poll |-> new_host_poll,
                  next_date |-> TsAdd(p_out_date, offset)]

\* The schedule after poll_update, from the fields it reads
poll_update(p_burst, p_next_date, p_out_date, p_last_poll, local_clock_time, poll_interval) ==
    LET new_host_poll == clamp_ntp_duration(from_exponent(MIN_POLL), poll_interval,
                                            from_exponent(MAX_POLL))
        floor_date(d) == IF d < local_clock_time THEN TsAdd(local_clock_time, ONE) ELSE d
    IN  IF p_burst > 0
        THEN IF p_next_date < local_clock_time
             THEN [host_poll |-> new_host_poll, next_date |-> p_next_date]
             ELSE [host_poll |-> new_host_poll,
                   next_date |-> floor_date(TsAdd(p_next_date, BURST_INTERVAL))]
        ELSE LET offset == clamp_ntp_duration(from_exponent(MIN_POLL), new_host_poll,
                                              from_exponent(p_last_poll))
             IN  [host_poll |-> new_host_poll,
                  next_date |-> floor_date(TsAdd(p_out_date, offset))]

----------------------------------------------------------------------------
\* State: the fields of Peer, and a record of the last call made on it

VARIABLES
    statistics,         \* Peer::statistics
    last_measurements,  \* Peer::last_measurements.register, slot 0 at index 1
    last_packet,        \* Peer::last_packet
    time,               \* Peer::time
    our_id,             \* Peer::our_id
    host_poll,          \* Peer::host_poll
    burst,              \* Peer::burst
    out_date,           \* Peer::out_date
    next_date,          \* Peer::next_date
    reach,              \* Peer::reach.0
    aborted,            \* the thread that owns the peer has panicked
    op,                 \* the last call: its name,
    arg,                \* its arguments,
    ret,                \* and what it returned
    calls,              \* the number of calls made so far
    inserted,           \* the tuples handed to shift_and_insert, oldest first
    events,             \* the last 8 calls on the reach register, oldest first
    task,               \* PeerTask: its fields, and where its run loop stands
    poll_wait,          \* the poll timer pinned in PeerTask::run
    msg_for_system,     \* PeerChannels::msg_for_system_sender, oldest first
    sent                \* the datagrams sent on PeerTask::socket

vars == <<statistics, last_measurements, last_packet, time, our_id, host_poll, burst,
          out_date, next_date, reach, aborted, op, arg, ret, calls, inserted, events,
          task, poll_wait, msg_for_system, sent>>

task_vars == <<task, poll_wait, msg_for_system, sent>>

peer_vars == <<statistics, last_measurements, last_packet, time, our_id, host_poll, burst,
               out_date, next_date, reach>>

\* NtpHeader::default
DefaultPacket ==
    [leap |-> "NoWarning", mode |-> "Client", stratum |-> 0, poll |-> 0,
     precision |-> 0, root_delay |-> ZERO, root_dispersion |-> ZERO,
     reference_id |-> 0, reference_timestamp |-> TS_ZERO,
     origin_timestamp |-> TS_ZERO, receive_timestamp |-> TS_ZERO,
     transmit_timestamp |-> TS_ZERO]

NoArg == [none |-> TRUE]
NoRet == [kind |-> "NoCall"]

\* PeerTask::spawn: no socket, no poll sent yet, the run loop about to start
NewTask ==
    [state |-> "running", socket |-> "None", last_send_timestamp |-> "None",
     last_poll_sent |-> 0, tries |-> 0, responses |-> 0, accepted |-> 0]

\* The timer of PeerTask::spawn, not yet elapsed
NewPollWait == [pending |-> FALSE, deadline |-> 0]

\* No peer task runs: the peer is driven by direct calls
NoTask ==
    /\ task = NewTask
    /\ poll_wait = NewPollWait
    /\ msg_for_system = <<>>
    /\ sent = 0

\* The peer of test::default_peer, before any call
InitPeer ==
    /\ NoTask
    /\ statistics = DefaultStatistics
    /\ last_measurements = NewRegister
    /\ last_packet = DefaultPacket
    /\ time = TS_ZERO
    /\ our_id = 0
    /\ host_poll = ZERO
    /\ burst = 0
    /\ out_date = TS_ZERO
    /\ next_date = TS_ZERO
    /\ reach = 0
    /\ aborted = FALSE
    /\ op = "new"
    /\ arg = NoArg
    /\ ret = NoRet
    /\ calls = 0
    /\ inserted = <<>>
    /\ events = <<>>

----------------------------------------------------------------------------
\* The reach register under poll() and received_packet()

LastEvents(es) == IF Len(es) > 8 THEN SubSeq(es, Len(es) - 7, Len(es)) ELSE es

ReachPollStep ==
    /\ ~aborted
    /\ reach' = ReachPoll(reach)
    /\ events' = LastEvents(Append(events, "poll"))
    /\ op' = "poll"
    /\ arg' = NoArg
    /\ ret' = [kind |-> "Unit"]
    /\ UNCHANGED task_vars
    /\ UNCHANGED <<statistics, last_measurements, last_packet, time, host_poll, burst,
                   out_date, next_date, aborted, calls, inserted, our_id>>

ReachReceivedStep ==
    /\ ~aborted
    /\ reach' = ReachReceived(reach)
    /\ events' = LastEvents(Append(events, "received_packet"))
    /\ op' = "received_packet"
    /\ arg' = NoArg
    /\ ret' = [kind |-> "Unit"]
    /\ UNCHANGED task_vars
    /\ UNCHANGED <<statistics, last_measurements, last_packet, time, host_poll, burst,
                   out_date, next_date, aborted, calls, inserted, our_id>>

NextReach == ReachPollStep \/ ReachReceivedStep

SpecReach == InitPeer /\ [][NextReach]_vars

\* C2: from the default register and under any interleaving of poll() and
\* received_packet(), the peer is reachable exactly when the eight most recent
\* calls contain at least one received_packet().
C2_ReachableIffRecentReceive ==
    is_reachable(reach) <=> (\E i \in 1..Len(events) : events[i] = "received_packet")

\* C2 witness: a receive followed by seven polls, the peer still reachable
C2_Witness_SevenPollsAfterReceive ==
    /\ events = <<"received_packet", "poll", "poll", "poll", "poll", "poll", "poll", "poll">>
    /\ is_reachable(reach)

----------------------------------------------------------------------------
\* The measurement register under shift_and_insert alone

MaxInserts == 9

\* a period long enough for phi to accrue one unit of dispersion
PhiPeriod == 1000000 \div 15 + 1

\* The n-th tuple handed in: its offset and time tell it from all the others
\* and from the dummy.
NthTuple(n, delay) == FilterTuple(n, delay, ONE, n * PhiPeriod)

RegisterInputs == { <<ONE, ZERO>>, <<2 * ONE, 1>>, <<ONE, 1>> }

ShiftAndInsertStep ==
    /\ ~aborted
    /\ calls < MaxInserts
    /\ \E in \in RegisterInputs :
          LET current == NthTuple(calls + 1, in[1])
          IN  /\ last_measurements' = shift_and_insert(last_measurements, current, in[2])
              /\ inserted' = Append(inserted, current)
              /\ arg' = [current |-> current, dispersion_correction |-> in[2]]
    /\ op' = "shift_and_insert"
    /\ ret' = [kind |-> "Unit"]
    /\ calls' = calls + 1
    /\ UNCHANGED task_vars
    /\ UNCHANGED <<statistics, last_packet, time, host_poll, burst, out_date, next_date,
                   reach, aborted, events, our_id>>

NextRegister == ShiftAndInsertStep

SpecRegister == InitPeer /\ [][NextRegister]_vars

SameSample(a, b) == a.offset = b.offset /\ a.delay = b.delay /\ a.time = b.time

\* C27: shift_and_insert puts the new tuple in slot 0 as it was handed in, and
\* moves each earlier slot one up with offset, delay and time unchanged; the
\* dispersion of a slot that held a sample has grown by dispersion_correction,
\* and a slot that held a dummy still holds the dummy
C27_CorrectionOnSamplesOnly ==
    [][ (op' = "shift_and_insert" /\ calls' = calls + 1)
        => /\ last_measurements'[1] = arg'.current
           /\ \A i \in 1..(RegisterSize - 1) :
                 LET old == last_measurements[i]
                     new == last_measurements'[i + 1]
                 IN  /\ SameSample(new, old)
                     /\ is_dummy(old) => new = DUMMY
                     /\ ~is_dummy(old)
                        => new.dispersion = old.dispersion + arg'.dispersion_correction
        ]_vars

\* C27 witness: three tuples went in, the last two with a correction of one
\* unit: the first has been corrected twice, the second once, the newest not
\* at all, and the other five slots are dummies
C27_Witness_TwoCorrections ==
    /\ op = "shift_and_insert" /\ Len(inserted) = 3
    /\ arg.dispersion_correction = 1
    /\ last_measurements[1].dispersion = ONE
    /\ last_measurements[2].dispersion = ONE + 1
    /\ last_measurements[3].dispersion = ONE + 2
    /\ \A i \in 4..RegisterSize : last_measurements[i] = DUMMY

\* C1: after N calls of shift_and_insert on a fresh register with pairwise
\* distinct non-dummy tuples, the register has exactly 8 slots, slot i holds
\* the tuple handed in i calls before the latest for every i < min(N, 8)
\* (same offset, delay and time), and the remaining slots are still dummies:
\* the tuple that was in slot 7 is gone after each call.
C1_ShiftCorrectness ==
    LET N == Len(inserted)
    IN  /\ Len(last_measurements) = RegisterSize
        /\ \A i \in 0..(RegisterSize - 1) :
              IF i < N THEN SameSample(last_measurements[i + 1], inserted[N - i])
              ELSE is_dummy(last_measurements[i + 1])

\* C1 witness: more than 8 tuples handed in, the first one pushed out of slot 7
C1_Witness_OldestDiscarded ==
    /\ Len(inserted) > RegisterSize
    /\ SameSample(last_measurements[RegisterSize], inserted[Len(inserted) - RegisterSize + 1])
    /\ \A i \in 1..RegisterSize : ~SameSample(last_measurements[i], inserted[1])

----------------------------------------------------------------------------
\* Peer::clock_filter

\* As a plausible slip: a sample as old as the last one is let through
prime_directive_Strict(smallest_delay, peer_time, system_leap_indicator) ==
    /\ TsSub(smallest_delay.time, peer_time) < ZERO
    /\ is_synchronized(system_leap_indicator)

\* As a plausible slip: the leap test left out
prime_directive_NoLeap(smallest_delay, peer_time, system_leap_indicator) ==
    TsSub(smallest_delay.time, peer_time) <= ZERO

\* As a plausible slip: the leap test inverted
prime_directive_Inverted(smallest_delay, peer_time, system_leap_indicator) ==
    /\ TsSub(smallest_delay.time, peer_time) <= ZERO
    /\ ~is_synchronized(system_leap_indicator)

\* Prime directive: use a sample only once and never a sample older than the
\* latest one, but anything goes before first synchronized.
prime_directive(smallest_delay, peer_time, system_leap_indicator) ==
    /\ TsSub(smallest_delay.time, peer_time) <= ZERO
    /\ is_synchronized(system_leap_indicator)

\* As a plausible slip: peer.time taken from the smallest-delay sample before
\* the prime directive is tested
clock_filter_TimeFirst(p, new_tuple, system_leap_indicator, system_precision) ==
    LET dispersion_correction == multiply_by_phi(TsSub(new_tuple.time, p.time))
        register == shift_and_insert(p.last_measurements, new_tuple, dispersion_correction)
        temporary_list == from_clock_filter_contents(register)
        smallest_delay == smallest_delay_of(temporary_list)
    IN  IF prime_directive(smallest_delay, p.time, system_leap_indicator)
        THEN {[last_measurements |-> register, statistics |-> p.statistics,
               time |-> smallest_delay.time, decision |-> "Ignore"]}
        ELSE {[last_measurements |-> register,
               statistics |-> [offset |-> smallest_delay.offset,
                               delay |-> smallest_delay.delay,
                               dispersion |-> dispersion_of(temporary_list),
                               jitter |-> system_precision],
               time |-> smallest_delay.time, decision |-> "Process"]}

\* clock_filter on the peer fields p = [last_measurements, statistics, time]:
\* the set of outcomes, each the fields after the call and the decision.
\* valid_tuples.len() - 1 underflows for an empty slice: a build with overflow
\* checks panics there (after the register was shifted), a build without them
\* divides 0.0 by usize::MAX and goes on; both outcomes are in the set.
clock_filter(p, new_tuple, system_leap_indicator, system_precision) ==
    LET dispersion_correction == multiply_by_phi(TsSub(new_tuple.time, p.time))
        register == shift_and_insert(p.last_measurements, new_tuple, dispersion_correction)
        temporary_list == from_clock_filter_contents(register)
        smallest_delay == smallest_delay_of(temporary_list)
        valid == valid_tuples(temporary_list)
        processed(jitter) ==
            [last_measurements |-> register,
             statistics |-> [offset |-> smallest_delay.offset,
                             delay |-> smallest_delay.delay,
                             dispersion |-> dispersion_of(temporary_list),
                             jitter |-> jitter],
             time |-> smallest_delay.time, decision |-> "Process"]
    IN  IF prime_directive(smallest_delay, p.time, system_leap_indicator)
        THEN {[last_measurements |-> register, statistics |-> p.statistics,
               time |-> p.time, decision |-> "Ignore"]}
        ELSE IF Len(valid) = 0
        THEN {[last_measurements |-> register, statistics |-> p.statistics,
               time |-> p.time, decision |-> "Panic"],
              processed(DurMax(0, system_precision))}
        ELSE {processed(jitter_help(valid, smallest_delay, system_precision))}

MaxFilterCalls == 9

SampleA == FilterTuple(3, ONE, ONE \div 16, 2 * PhiPeriod)
SampleB == FilterTuple(5, 2 * ONE, ONE \div 8, 3 * PhiPeriod)
SampleX == FilterTuple(-4, 3 * ONE, ONE \div 4, PhiPeriod)

FilterInputs ==
    { [new_tuple |-> SampleA, system_leap_indicator |-> "NoWarning", system_precision |-> ZERO],
      [new_tuple |-> SampleB, system_leap_indicator |-> "NoWarning", system_precision |-> ZERO],
      [new_tuple |-> SampleX, system_leap_indicator |-> "NoWarning", system_precision |-> 1],
      [new_tuple |-> SampleX, system_leap_indicator |-> "Unknown", system_precision |-> ZERO] }

ClockFilter ==
    /\ ~aborted
    /\ calls < MaxFilterCalls
    /\ \E in \in FilterInputs :
       \E r \in clock_filter([last_measurements |-> last_measurements,
                              statistics |-> statistics, time |-> time],
                             in.new_tuple, in.system_leap_indicator, in.system_precision) :
          /\ last_measurements' = r.last_measurements
          /\ statistics' = r.statistics
          /\ time' = r.time
          /\ aborted' = (r.decision = "Panic")
          /\ ret' = [kind |-> r.decision]
          /\ arg' = in
          /\ inserted' = Append(inserted, in.new_tuple)
    /\ op' = "clock_filter"
    /\ calls' = calls + 1
    /\ UNCHANGED task_vars
    /\ UNCHANGED <<last_packet, host_poll, burst, out_date, next_date, reach, events,
                   our_id>>

NextFilter == ClockFilter

SpecFilter == InitPeer /\ [][NextFilter]_vars

IsClockFilterStep == op' = "clock_filter" /\ calls' = calls + 1

\* Every sample passed to clock_filter so far has a dispersion that is not
\* negative
SamplesNonNegative ==
    \A i \in 1..Len(inserted') : inserted'[i].dispersion >= ZERO

\* C38: with no negative dispersion among the samples passed to
\* clock_filter, no sample in the register has a negative dispersion after a
\* call, and the call does not lower the dispersion of a sample that was in
\* the register before it, which it moves one slot on
C38_DispersionNeverDecreases ==
    [][ (IsClockFilterStep /\ SamplesNonNegative)
        => /\ \A i \in 1..RegisterSize :
                 ~is_dummy(last_measurements'[i])
                    => last_measurements'[i].dispersion >= ZERO
           /\ \A i \in 1..(RegisterSize - 1) :
                 ~is_dummy(last_measurements[i])
                    => last_measurements'[i + 1].dispersion
                          >= last_measurements[i].dispersion ]_vars

\* clock_filter handed, among the samples above, a sample whose four fields
\* are those of FilterTuple::DUMMY, which is_dummy cannot tell from a dummy
MaxDummyCalls == 3

DummyInputs ==
    FilterInputs \cup
    { [new_tuple |-> FilterTuple(ZERO, MAX_DISPERSION, MAX_DISPERSION, TS_ZERO),
       system_leap_indicator |-> l, system_precision |-> ZERO] :
      l \in {"NoWarning", "Unknown"} }

ClockFilterDummy ==
    /\ ~aborted
    /\ calls < MaxDummyCalls
    /\ \E in \in DummyInputs :
       \E r \in clock_filter([last_measurements |-> last_measurements,
                              statistics |-> statistics, time |-> time],
                             in.new_tuple, in.system_leap_indicator, in.system_precision) :
          /\ last_measurements' = r.last_measurements
          /\ statistics' = r.statistics
          /\ time' = r.time
          /\ aborted' = (r.decision = "Panic")
          /\ ret' = [kind |-> r.decision]
          /\ arg' = in
          /\ inserted' = Append(inserted, in.new_tuple)
    /\ op' = "clock_filter"
    /\ calls' = calls + 1
    /\ UNCHANGED task_vars
    /\ UNCHANGED <<last_packet, host_poll, burst, out_date, next_date, reach, events,
                   our_id>>

NextDummy == ClockFilterDummy

SpecDummy == InitPeer /\ [][NextDummy]_vars

\* C39: every clock_filter call returns a Decision, Ignore or Process, and
\* the thread does not abort in it, the sample being value-equal to the dummy
\* or not
C39_ClockFilterReturnsDecision ==
    [][ IsClockFilterStep
        => /\ ret'.kind \in {"Ignore", "Process"}
           /\ ~aborted' ]_vars

\* the incoming tuple is the smallest-delay sample once inserted: a stable
\* sort by delay puts slot 0 first among equal delays
IncomingIsSmallest(register, new_tuple) ==
    \A i \in 1..(RegisterSize - 1) : register[i].delay >= new_tuple.delay

\* C3 as stated: with the system synchronized, an incoming sample whose time
\* is <= peer.time is ignored and leaves peer.statistics unchanged, whatever
\* the history of earlier clock_filter calls.
C3_Original_StaleIncomingIgnored ==
    [][ (/\ IsClockFilterStep
         /\ is_synchronized(arg'.system_leap_indicator)
         /\ arg'.new_tuple.time <= time)
        => (ret'.kind = "Ignore" /\ statistics' = statistics) ]_vars

\* C3 as amended: with the system synchronized, an incoming sample that is
\* not later than peer.time and whose delay no retained slot undercuts (so
\* that it is the smallest-delay sample of the register) is ignored and leaves
\* peer.statistics unchanged.
C3_StaleSmallestIgnored ==
    [][ (/\ IsClockFilterStep
         /\ is_synchronized(arg'.system_leap_indicator)
         /\ TsSub(arg'.new_tuple.time, time) <= ZERO
         /\ IncomingIsSmallest(last_measurements, arg'.new_tuple))
        => (ret'.kind = "Ignore" /\ statistics' = statistics) ]_vars

\* C3 witness: a second call, synchronized, whose sample is the smallest-delay
\* one of the register and not later than peer.time, has been ignored
C3_Witness_StaleSmallestIgnored ==
    /\ op = "clock_filter" /\ calls >= 2
    /\ is_synchronized(arg.system_leap_indicator)
    /\ arg.new_tuple.time <= time
    /\ \A i \in 2..RegisterSize : last_measurements[i].delay >= arg.new_tuple.delay
    /\ ret.kind = "Ignore"

\* C4 as stated: an ignored call changes nothing, the register included.
C4_Original_IgnoreChangesNothing ==
    [][ (IsClockFilterStep /\ ret'.kind = "Ignore")
        => (/\ statistics' = statistics
            /\ time' = time
            /\ last_measurements' = last_measurements) ]_vars

\* C4 as amended: an ignored call leaves peer.statistics and peer.time as they
\* were; the register is not left alone: the new sample is in slot 0 and every
\* retained sample has moved one slot up, the one in slot 7 dropped.
C4_IgnoreKeepsStatisticsAndTime ==
    [][ (IsClockFilterStep /\ ret'.kind = "Ignore")
        => (/\ statistics' = statistics
            /\ time' = time
            /\ last_measurements'[1] = arg'.new_tuple
            /\ \A i \in 1..(RegisterSize - 1) :
                  SameSample(last_measurements'[i + 1], last_measurements[i])) ]_vars

\* C4 witness: an ignored call whose sample sits in slot 0, with peer.time
\* still that of an earlier, different sample
C4_Witness_IgnoredSampleInRegister ==
    /\ op = "clock_filter" /\ ret.kind = "Ignore"
    /\ last_measurements[1] = arg.new_tuple
    /\ time # arg.new_tuple.time
    /\ time # TS_ZERO

\* The slot of the register with the smallest delay, the newest one among
\* equal delays; a dummy's delay is MAX_DISPERSION
SmallestDelaySlot(register) ==
    CHOOSE i \in 1..RegisterSize :
        \A j \in 1..RegisterSize :
            \/ register[i].delay < register[j].delay
            \/ register[i].delay = register[j].delay /\ i <= j

C10_TimeMonotonicWhileSynchronized ==
    [][ (IsClockFilterStep /\ is_synchronized(arg'.system_leap_indicator))
        => (/\ ret'.kind = "Process" => time' > time
            /\ ret'.kind = "Ignore" => time' = time
            /\ time' >= time) ]_vars

\* C10 witness: a synchronized call after an earlier accepted sample returned
\* Process and moved peer.time to a later sample
C10_Witness_SecondProcess ==
    /\ op = "clock_filter" /\ ret.kind = "Process"
    /\ is_synchronized(arg.system_leap_indicator)
    /\ Len(inserted) >= 2
    /\ inserted[1] = SampleX
    /\ time = SampleA.time

----------------------------------------------------------------------------
\* FilterTuple::from_packet as a call of its own

Seconds(n) == n * ONE

\* T1..T4: the values of the tests, and the timestamp half the word away,
\* whose difference to 0 is the most negative duration
PacketTimes == {0, Seconds(10), Seconds(20), Seconds(30), Seconds(40), Modulus \div 2}

FromPacketInputs ==
    { [packet |-> [DefaultPacket EXCEPT !.mode = m, !.precision = e,
                                        !.origin_timestamp = t1,
                                        !.receive_timestamp = t2,
                                        !.transmit_timestamp = t3],
       system_precision |-> sp,
       destination_timestamp |-> t4,
       local_clock_time |-> lc] :
      m \in {"Client", "Broadcast"}, e \in {0, -4}, t1 \in PacketTimes,
      t2 \in PacketTimes, t3 \in PacketTimes, t4 \in PacketTimes,
      sp \in {ZERO, 1, ONE}, lc \in {TS_ZERO, Seconds(7)} }

InitFromPacket ==
    /\ NoTask
    /\ statistics = DefaultStatistics
    /\ last_measurements = NewRegister
    /\ last_packet = DefaultPacket
    /\ time = TS_ZERO
    /\ our_id = 0
    /\ host_poll = ZERO
    /\ burst = 0
    /\ out_date = TS_ZERO
    /\ next_date = TS_ZERO
    /\ reach = 0
    /\ aborted = FALSE
    /\ op = "input"
    /\ arg \in FromPacketInputs
    /\ ret = NoRet
    /\ calls = 0
    /\ inserted = <<>>
    /\ events = <<>>

FromPacketStep ==
    /\ ~aborted
    /\ op = "input"
    /\ op' = "from_packet"
    /\ IF from_packet_is_todo(arg.packet)
       THEN /\ aborted' = TRUE
            /\ ret' = [kind |-> "Panic"]
       ELSE /\ aborted' = FALSE
            /\ ret' = [kind |-> "Some",
                       tuple |-> from_packet(arg.packet, arg.system_precision,
                                             arg.destination_timestamp,
                                             arg.local_clock_time)]
    /\ calls' = calls + 1
    /\ UNCHANGED task_vars
    /\ UNCHANGED <<peer_vars, arg, inserted, events>>

NextFromPacket == FromPacketStep

SpecFromPacket == InitFromPacket /\ [][NextFromPacket]_vars

\* the raw round-trip delay (T4 - T1) - (T3 - T2) of the arguments a
RawDelay(a) ==
    DurSub(TsSub(a.destination_timestamp, a.packet.origin_timestamp),
           TsSub(a.packet.transmit_timestamp, a.packet.receive_timestamp))

\* C7: for every non-broadcast packet, all T1..T4 and every system precision,
\* the sample's delay is at least the system precision, and equals it whenever
\* the raw delay (T4 - T1) - (T3 - T2) is smaller, negative raw delays included.
C7_DelayClamp ==
    (op = "from_packet" /\ arg.packet.mode # "Broadcast")
    => /\ ret.kind = "Some"
       /\ ret.tuple.delay >= arg.system_precision
       /\ RawDelay(arg) < arg.system_precision => ret.tuple.delay = arg.system_precision
       /\ RawDelay(arg) >= arg.system_precision => ret.tuple.delay = RawDelay(arg)

\* C7 witness: a packet whose raw delay is negative (T1 = 0, T2 = 10 s,
\* T3 = 40 s, T4 = 20 s: 20 s - 30 s), clamped to the system precision of 1 s
C7_Witness_NegativeDelayClamped ==
    /\ op = "from_packet" /\ arg.packet.mode = "Client"
    /\ arg.packet.origin_timestamp = 0
    /\ arg.packet.receive_timestamp = Seconds(10)
    /\ arg.packet.transmit_timestamp = Seconds(40)
    /\ arg.destination_timestamp = Seconds(20)
    /\ arg.system_precision = ONE
    /\ RawDelay(arg) = -Seconds(10)
    /\ ret.tuple.delay = ONE

\* C8: for every non-broadcast packet the sample is
\*   offset     = ((T2 - T1) + (T4 - T3)) / 2,
\*   delay      = max(system_precision, (T4 - T1) - (T3 - T2)),
\*   dispersion = 2^precision + system_precision + ((T4 - T1) * 15) / 1_000_000,
\*   time       = local_clock_time, not the destination timestamp,
\* in fixed-point integer arithmetic.
C8_SampleFormulas ==
    (op = "from_packet" /\ arg.packet.mode # "Broadcast")
    => LET T1 == arg.packet.origin_timestamp
           T2 == arg.packet.receive_timestamp
           T3 == arg.packet.transmit_timestamp
           T4 == arg.destination_timestamp
       IN  /\ ret.kind = "Some"
           /\ ret.tuple.offset = TruncDiv(Saturate(TsSub(T2, T1) + TsSub(T4, T3)), 2)
           /\ ret.tuple.delay =
                 DurMax(arg.system_precision, Saturate(TsSub(T4, T1) - TsSub(T3, T2)))
           /\ ret.tuple.dispersion =
                 Saturate(Saturate(from_exponent(arg.packet.precision) + arg.system_precision)
                          + TruncDiv(Saturate(TsSub(T4, T1) * 15), 1000000))
           /\ ret.tuple.time = arg.local_clock_time

\* C8 witness: the packet of test filter_tuple_from_packet_standard
\* (T1 = 0, T2 = 10 s, T3 = 20 s, T4 = 30 s, precision 0, system precision 0),
\* here with a local clock time that differs from T4
C8_Witness_StandardPacket ==
    /\ op = "from_packet" /\ arg.packet.mode = "Client"
    /\ arg.packet.precision = 0 /\ arg.system_precision = ZERO
    /\ arg.packet.origin_timestamp = 0
    /\ arg.packet.receive_timestamp = Seconds(10)
    /\ arg.packet.transmit_timestamp = Seconds(20)
    /\ arg.destination_timestamp = Seconds(30)
    /\ arg.local_clock_time = Seconds(7)
    /\ ret.tuple = FilterTuple(Seconds(10), Seconds(20),
                               ONE + (Seconds(30) * 15) \div 1000000, Seconds(7))

----------------------------------------------------------------------------
\* Peer::update_with_packet

\* As a plausible slip: stratum 0 left as it came
map_stratum_Unmapped(packet) == packet

\* we map stratum 0 (unspecified) to MAXSTRAT
map_stratum(packet) ==
    IF packet.stratum = 0 THEN [packet EXCEPT !.stratum = MAX_STRATUM] ELSE packet

\* the server is unsynchronized or its stratum invalid
is_unsynchronized(header) ==
    ~is_synchronized(header.leap) \/ header.stratum >= MAX_STRATUM

\* invalid header values: the root distance test and the time-travel test
is_invalid_header(header) ==
    LET packet_dispersion == DurAdd(DurDiv(header.root_delay, 2), header.root_dispersion)
        time_travel == header.reference_timestamp > header.transmit_timestamp
    IN  packet_dispersion >= MAX_DISPERSION \/ time_travel

\* As a plausible slip: the reach bit set as soon as a packet arrives, before
\* the header is verified
update_with_packet_ReachFirst(p, local_clock_time, system_precision, packet, destination_timestamp) ==
    LET header == map_stratum(packet)
        rejected(why) == [last_packet |-> header, host_poll |-> p.host_poll,
                          next_date |-> p.next_date,
                          reach |-> ReachReceived(p.reach),
                          aborted |-> FALSE, ret |-> [kind |-> "None", at |-> why]]
        schedule == poll_update(p.burst, p.next_date, p.out_date, header.poll,
                                local_clock_time, p.host_poll)
    IN  IF is_unsynchronized(header) THEN rejected("unsynchronized")
        ELSE IF is_invalid_header(header) THEN rejected("invalid header values")
        ELSE [last_packet |-> header, host_poll |-> schedule.host_poll,
              next_date |-> schedule.next_date, reach |-> ReachReceived(p.reach),
              aborted |-> from_packet_is_todo(header),
              ret |-> IF from_packet_is_todo(header) THEN [kind |-> "Panic"]
                      ELSE [kind |-> "Some",
                            tuple |-> from_packet(header, system_precision,
                                                  destination_timestamp, local_clock_time)]]

\* update_with_packet on the peer fields p = [last_packet, host_poll, burst,
\* out_date, next_date, reach]: the fields it leaves behind and what it
\* returns.  The two rejections both return None; `at` names the return
\* statement taken.  For a broadcast packet that passes both tests,
\* from_packet reaches todo!() after the schedule and reach were updated.
update_with_packet(p, local_clock_time, system_precision, packet, destination_timestamp) ==
    LET header == map_stratum(packet)
        rejected(why) == [last_packet |-> header, host_poll |-> p.host_poll,
                          next_date |-> p.next_date, reach |-> p.reach,
                          aborted |-> FALSE, ret |-> [kind |-> "None", at |-> why]]
        schedule == poll_update(p.burst, p.next_date, p.out_date, header.poll,
                                local_clock_time, p.host_poll)
    IN  IF is_unsynchronized(header) THEN rejected("unsynchronized")
        ELSE IF is_invalid_header(header) THEN rejected("invalid header values")
        ELSE [last_packet |-> header, host_poll |-> schedule.host_poll,
              next_date |-> schedule.next_date, reach |-> ReachReceived(p.reach),
              aborted |-> from_packet_is_todo(header),
              ret |-> IF from_packet_is_todo(header) THEN [kind |-> "Panic"]
                      ELSE [kind |-> "Some",
                            tuple |-> from_packet(header, system_precision,
                                                  destination_timestamp, local_clock_time)]]

IngestPackets ==
    { [DefaultPacket EXCEPT !.leap = l, !.mode = m, !.stratum = st, !.poll = pl,
                            !.precision = -4,
                            !.root_delay = rd, !.root_dispersion = rp,
                            !.reference_timestamp = rt,
                            !.origin_timestamp = Seconds(10),
                            !.receive_timestamp = Seconds(15),
                            !.transmit_timestamp = Seconds(20)] :
      l \in {"NoWarning", "Leap61", "Unknown"}, m \in {"Client", "Broadcast"},
      st \in {0, 1, 15, 16, 42}, pl \in {3, 6},
      rd \in {ZERO, 2 * MAX_DISPERSION - 1, 2 * MAX_DISPERSION},
      rp \in {ZERO, 1, MAX_DISPERSION},
      rt \in {Seconds(10), Seconds(20), Seconds(30)} }

IngestInputs ==
    { [packet |-> pk, system_precision |-> 1,
       destination_timestamp |-> Seconds(25), local_clock_time |-> Seconds(60)] :
      pk \in IngestPackets }

\* a peer between two packets: the schedule fields as an earlier poll or
\* construction may have left them
InitIngest ==
    /\ NoTask
    /\ statistics = DefaultStatistics
    /\ last_measurements = NewRegister
    /\ last_packet = DefaultPacket
    /\ time = TS_ZERO
    /\ our_id = 0
    /\ host_poll \in {ZERO, from_exponent(6), from_exponent(MAX_POLL + 1)}
    /\ burst \in {0, 1}
    /\ out_date \in {TS_ZERO, Seconds(50)}
    /\ next_date \in {TS_ZERO, Seconds(100)}
    /\ reach = 0
    /\ aborted = FALSE
    /\ op = "input"
    /\ arg \in IngestInputs
    /\ ret = NoRet
    /\ calls = 0
    /\ inserted = <<>>
    /\ events = <<>>

UpdateWithPacket ==
    /\ ~aborted
    /\ op = "input"
    /\ op' = "update_with_packet"
    /\ \E r \in { update_with_packet(
                    [last_packet |-> last_packet, host_poll |-> host_poll,
                     burst |-> burst, out_date |-> out_date,
                     next_date |-> next_date, reach |-> reach],
                    arg.local_clock_time, arg.system_precision, arg.packet,
                    arg.destination_timestamp) } :
          /\ last_packet' = r.last_packet
          /\ host_poll' = r.host_poll
          /\ next_date' = r.next_date
          /\ reach' = r.reach
          /\ aborted' = r.aborted
          /\ ret' = r.ret
    /\ calls' = calls + 1
    /\ UNCHANGED task_vars
    /\ UNCHANGED <<statistics, last_measurements, time, burst, out_date, arg,
                   inserted, events, our_id>>

NextIngest == UpdateWithPacket

SpecIngest == InitIngest /\ [][NextIngest]_vars

\* the header as update_with_packet stores it, stated on its own
StoredHeader(packet) ==
    [packet EXCEPT !.stratum = IF packet.stratum = 0 THEN 16 ELSE packet.stratum]

\* C5: when update_with_packet rejects a packet (returns no sample) the only
\* peer field that changes is last_packet, set to the received header with
\* stratum 0 rewritten to 16; host_poll, next_date, out_date, burst, reach,
\* the register, statistics and time are unchanged.
C5_RejectChangesOnlyLastPacket ==
    [][ (op' = "update_with_packet" /\ ret'.kind = "None")
        => (/\ last_packet' = StoredHeader(arg.packet)
            /\ UNCHANGED <<host_poll, next_date, out_date, burst, reach,
                           last_measurements, statistics, time>>) ]_vars

\* C5 witness: a packet with leap Unknown and stratum 0 was rejected and is
\* now the last packet, with stratum 16, on a peer whose deadline had passed
C5_Witness_UnsynchronizedRejected ==
    /\ op = "update_with_packet" /\ ret.kind = "None"
    /\ arg.packet.leap = "Unknown" /\ arg.packet.stratum = 0
    /\ last_packet.stratum = 16 /\ last_packet.leap = "Unknown"
    /\ next_date < arg.local_clock_time
    /\ reach = 0

\* The schedule as poll_update leaves it when called on the peer as it was
\* before the packet, with the packet's poll exponent already in last_packet
ScheduleAfterPacket ==
    poll_update(burst, next_date, out_date, arg.packet.poll,
                arg.local_clock_time, host_poll)

\* C28: whenever update_with_packet returns a sample, the schedule is the one
\* poll_update(local_clock_time, host_poll) leaves, the low bit of reach is
\* set, so that the peer is reachable, and last_packet is the packet's header.
\* Both were done before the sample was built: a packet for which building
\* the sample aborts leaves the schedule updated and the bit set as well
C28_AcceptedPacketUpdatesPeer ==
    [][ (op' = "update_with_packet" /\ ret'.kind \in {"Some", "Panic"})
        => /\ host_poll' = ScheduleAfterPacket.host_poll
           /\ next_date' = ScheduleAfterPacket.next_date
           /\ reach' % 2 = 1
           /\ reach' \div 2 = reach \div 2
           /\ is_reachable(reach')
           /\ ret'.kind = "Some" => last_packet' = arg.packet ]_vars

\* C28 witness: a sample was returned for a stratum-1 packet with poll
\* exponent 6; the peer, unreachable before, is reachable, its host_poll
\* raised from 0 to 16 s and its next poll due 16 s after the last
C28_Witness_SampleAndReachable ==
    /\ op = "update_with_packet" /\ ret.kind = "Some"
    /\ arg.packet.stratum = 1 /\ arg.packet.poll = 6
    /\ last_packet = arg.packet
    /\ reach = 1
    /\ burst = 0
    /\ host_poll = from_exponent(MIN_POLL)
    /\ out_date = Seconds(50)
    /\ next_date = TsAdd(out_date, from_exponent(MIN_POLL))

HeaderAccepted(packet) ==
    /\ packet.leap # "Unknown"
    /\ (IF packet.stratum = 0 THEN 16 ELSE packet.stratum) < 16
    /\ TruncDiv(packet.root_delay, 2) + packet.root_dispersion < MAX_DISPERSION
    /\ packet.reference_timestamp <= packet.transmit_timestamp

\* C6: for a non-broadcast packet update_with_packet returns a sample iff the
\* leap indicator is synchronized, the stratum (0 read as 16) is below 16,
\* root_delay/2 + root_dispersion < MAX_DISPERSION and the reference timestamp
\* is not later than the transmit timestamp; otherwise it returns no sample,
\* and an unsynchronized packet is rejected by the synchronization check even
\* when its header values are invalid too.
C6_SampleIffHeaderAccepted ==
    (op = "update_with_packet" /\ arg.packet.mode # "Broadcast")
    => /\ ret.kind \in {"Some", "None"}
       /\ ret.kind = "Some" <=> HeaderAccepted(arg.packet)
       /\ ret.kind = "None" =>
             (ret.at = "unsynchronized"
                <=> (arg.packet.leap = "Unknown" \/ arg.packet.stratum = 0
                     \/ arg.packet.stratum >= 16))

\* C6 witness: a synchronized stratum-15 packet at the edge of the header
\* tests (root_delay/2 one unit below MAX_DISPERSION, reference timestamp
\* equal to the transmit timestamp) yields a sample
C6_Witness_EdgePacketAccepted ==
    /\ op = "update_with_packet" /\ ret.kind = "Some"
    /\ arg.packet.mode = "Client" /\ arg.packet.stratum = 15
    /\ arg.packet.root_delay = 2 * MAX_DISPERSION - 1
    /\ arg.packet.reference_timestamp = arg.packet.transmit_timestamp

\* C9: a broadcast packet makes the sample builder report an explicit
\* "unsupported" error to its caller, no sample is fabricated, and ingesting
\* it does not abort the peer.
C9_BroadcastReportsUnsupported ==
    (op = "update_with_packet" /\ arg.packet.mode = "Broadcast")
    => /\ ~aborted
       /\ ret.kind # "Some"
       /\ HeaderAccepted(arg.packet) => ret.kind = "Unsupported"

----------------------------------------------------------------------------
\* clock_filter fed with measurements of any delay: the round trip that
\* from_packet computes is not bounded by the header tests, and the packet of
\* test filter_tuple_from_packet_standard already has a delay of 20 s.

MaxSampleCalls == 5

\* offset, delay, system leap indicator, system precision
SampleInputs ==
    { <<Seconds(20), ONE, "Unknown", ZERO>>,
      <<Seconds(30), ONE, "Unknown", ZERO>>,
      <<Seconds(20), 2 * ONE, "Unknown", 1>>,
      <<Seconds(30), ONE, "NoWarning", Seconds(20)>>,
      <<Seconds(7), Seconds(20), "Unknown", ZERO>>,
      <<Seconds(7), Seconds(20), "NoWarning", 1>> }

\* the n-th measurement: taken one PhiPeriod after the one before
NthSample(n, in) ==
    [new_tuple |-> FilterTuple(in[1], in[2], ONE \div 16, n * PhiPeriod),
     system_leap_indicator |-> in[3], system_precision |-> in[4]]

ClockFilterSample ==
    /\ ~aborted
    /\ calls < MaxSampleCalls
    /\ \E in \in SampleInputs :
       \E r \in clock_filter([last_measurements |-> last_measurements,
                              statistics |-> statistics, time |-> time],
                             NthSample(calls + 1, in).new_tuple, in[3], in[4]) :
          /\ last_measurements' = r.last_measurements
          /\ statistics' = r.statistics
          /\ time' = r.time
          /\ aborted' = (r.decision = "Panic")
          /\ ret' = [kind |-> r.decision]
          /\ arg' = NthSample(calls + 1, in)
          /\ inserted' = Append(inserted, NthSample(calls + 1, in).new_tuple)
    /\ op' = "clock_filter"
    /\ calls' = calls + 1
    /\ UNCHANGED task_vars
    /\ UNCHANGED <<last_packet, host_poll, burst, out_date, next_date, reach, events,
                   our_id>>

NextSample == ClockFilterSample

SpecSample == InitPeer /\ [][NextSample]_vars

NotDummy(t) == ~is_dummy(t)

AllDummies(register) == \A i \in 1..RegisterSize : is_dummy(register[i])

\* C11: in every reachable register state no dummy precedes a real sample in
\* the temporary list sorted by delay, valid_tuples contains no dummy, and for
\* an all-dummy register valid_tuples is empty.
C11_DummiesSortLast ==
    LET sorted == from_clock_filter_contents(last_measurements)
        valid == valid_tuples(sorted)
    IN  /\ \A i \in 1..RegisterSize : \A j \in 1..RegisterSize :
              (is_dummy(sorted[i]) /\ NotDummy(sorted[j])) => j < i
        /\ \A i \in 1..Len(valid) : NotDummy(valid[i])
        /\ AllDummies(last_measurements) => valid = <<>>

\* statistics.offset, statistics.delay and peer.time are those of tuple t
StatisticsFrom(t) ==
    /\ statistics.offset = t.offset
    /\ statistics.delay = t.delay
    /\ time = t.time

\* Some slot of least delay, dummies counting with theirs, gave the statistics
FromLeastDelaySlot ==
    \E i \in 1..RegisterSize :
        /\ \A j \in 1..RegisterSize :
              last_measurements[i].delay <= last_measurements[j].delay
        /\ StatisticsFrom(last_measurements[i])

\* C26: whenever clock_filter returns Process, statistics.offset and
\* statistics.delay are those of a register slot of least delay (a dummy
\* counting with delay MAX_DISPERSION) and peer.time is that slot's time; and
\* for a single sample inserted into a fresh peer they are that sample's
C26_StatisticsFromSmallestDelay ==
    (op = "clock_filter" /\ ret.kind = "Process")
    => /\ FromLeastDelaySlot
       /\ Len(inserted) = 1 => StatisticsFrom(inserted[1])

\* C12: the dispersion that clock_filter stores is the sum over i = 0..7 of
\* sorted[i].dispersion / 2^(i+1), each term divided in fixed point; for a
\* register of 8 dummies the sum is strictly below MAX_DISPERSION (16 s) and
\* within 0.1 s of it.
C12_DispersionSum ==
    LET sorted == from_clock_filter_contents(last_measurements)
        term(i) == TruncDiv(sorted[i + 1].dispersion, 2 ^ (i + 1))
        sum == term(0) + term(1) + term(2) + term(3)
               + term(4) + term(5) + term(6) + term(7)
    IN  /\ dispersion_of(sorted) = sum
        /\ (op = "clock_filter" /\ ret.kind = "Process") => statistics.dispersion = sum
        /\ AllDummies(last_measurements)
              => (sum < MAX_DISPERSION /\ 10 * (MAX_DISPERSION - sum) < ONE)

\* C12 witness: a processed call on a register of at least 3 measurements whose
\* slots carry different dispersions, the older ones corrected by phi
C12_Witness_ThreeSamples ==
    /\ op = "clock_filter" /\ ret.kind = "Process"
    /\ Len(inserted) >= 3
    /\ last_measurements[1].dispersion < last_measurements[2].dispersion
    /\ statistics.dispersion > ZERO
    /\ statistics.dispersion < MAX_DISPERSION

\* C13: for a register with k >= 1 valid samples the jitter that clock_filter
\* stores is max(system_precision, sqrt(sum over the valid samples of
\* (offset_j - best.offset)^2) / max(1, k - 1)), best being the valid sample of
\* smallest delay; it is never below system_precision, and with exactly one
\* valid sample it equals system_precision.
C13_JitterFormula ==
    LET sorted == from_clock_filter_contents(last_measurements)
        samples == SelectSeq(sorted, NotDummy)
        k == Len(samples)
        divisor == IF k - 1 > 1 THEN k - 1 ELSE 1
    IN  (op = "clock_filter" /\ ret.kind = "Process" /\ k >= 1)
        => /\ statistics.jitter =
                 DurMax(arg.system_precision,
                        Sqrt(SumSquares(samples, samples[1], k)) \div divisor)
           /\ statistics.jitter >= arg.system_precision
           /\ k = 1 => statistics.jitter = arg.system_precision

----------------------------------------------------------------------------
\* Peer::root_distance and Peer::accept_synchronization, on the peer fields
\* p = [statistics, last_packet, time, our_id]

\* NtpDuration::from_seconds, of a jitter the model keeps in duration units
from_seconds(seconds) == Saturate(seconds)

root_distance(p, local_clock_time) ==
    DurAdd(DurAdd(DurAdd(DurAdd(
        DurDiv(DurMax(MIN_DISPERSION,
                      DurAdd(p.last_packet.root_delay, p.statistics.delay)), 2),
        p.last_packet.root_dispersion),
        p.statistics.dispersion),
        multiply_by_phi(TsSub(local_clock_time, p.time))),
        from_seconds(p.statistics.jitter))

\* As a plausible slip: the loop test applied to stratum-1 peers as well
is_loop_Any(p) == p.last_packet.reference_id = p.our_id

\* the remote uses us as its time reference; reference_id is ignored if the
\* stratum is 1
is_loop(p) == p.last_packet.stratum # 1 /\ p.last_packet.reference_id = p.our_id

distance_threshold(system_poll) == DurAdd(MAX_DISTANCE, multiply_by_phi(system_poll))

accept_synchronization(p, local_clock_time, system_poll) ==
    IF ~is_synchronized(p.last_packet.leap) \/ p.last_packet.stratum >= MAX_STRATUM
    THEN FALSE
    ELSE IF root_distance(p, local_clock_time) > distance_threshold(system_poll)
    THEN FALSE
    ELSE IF is_loop(p) THEN FALSE
    ELSE TRUE

----------------------------------------------------------------------------
\* Candidate list, interval search and survivors

\* EndpointType as i32
EndpointType(endpoint_type) ==
    CASE endpoint_type = "Upper" -> 1
      [] endpoint_type = "Middle" -> 0
      [] endpoint_type = "Lower" -> -1

CandidateTuple(peer, endpoint_type, edge) ==
    [peer |-> peer, endpoint_type |-> endpoint_type, edge |-> edge]

\* the three tuples of one peer, in the order they are pushed
PeerCandidates(peer, local_clock_time) ==
    << CandidateTuple(peer, "Upper",
                      DurAdd(peer.statistics.offset, root_distance(peer, local_clock_time))),
       CandidateTuple(peer, "Middle", peer.statistics.offset),
       CandidateTuple(peer, "Lower",
                      DurSub(peer.statistics.offset, root_distance(peer, local_clock_time))) >>

RECURSIVE ExtendCandidates(_, _, _)
ExtendCandidates(valid_associations, local_clock_time, n) ==
    IF n = 0 THEN <<>>
    ELSE ExtendCandidates(valid_associations, local_clock_time, n - 1)
         \o PeerCandidates(valid_associations[n], local_clock_time)

\* sort_by(|a, b| a.edge.cmp(&b.edge)): stable, equal edges keep their order
RECURSIVE InsertByEdge(_, _)
InsertByEdge(sorted, t) ==
    IF sorted = <<>> THEN <<t>>
    ELSE IF t.edge < Head(sorted).edge THEN <<t>> \o sorted
    ELSE <<Head(sorted)>> \o InsertByEdge(Tail(sorted), t)

RECURSIVE SortByEdge(_, _)
SortByEdge(list, n) ==
    IF n = 0 THEN <<>> ELSE InsertByEdge(SortByEdge(list, n - 1), list[n])

\* As a plausible slip: the list returned as it was filled, peer by peer
construct_candidate_list_Unsorted(valid_associations, local_clock_time) ==
    ExtendCandidates(valid_associations, local_clock_time, Len(valid_associations))

construct_candidate_list(valid_associations, local_clock_time) ==
    LET candidate_list == ExtendCandidates(valid_associations, local_clock_time,
                                           Len(valid_associations))
    IN  SortByEdge(candidate_list, Len(candidate_list))

\* Option<NtpDuration>
NoEdge == [some |-> FALSE, edge |-> ZERO]
SomeEdge(edge) == [some |-> TRUE, edge |-> edge]

\* The scan from lowest to highest, from tuple i on: the edge at which chime
\* reaches the threshold, if any, and the middles passed before it
RECURSIVE LowScan(_, _, _, _, _)
LowScan(chime_list, i, chime, found, threshold) ==
    IF i > Len(chime_list) THEN [edge |-> NoEdge, found |-> found]
    ELSE LET c == chime - EndpointType(chime_list[i].endpoint_type)
         IN  IF c >= threshold
             THEN [edge |-> SomeEdge(chime_list[i].edge), found |-> found]
             ELSE LowScan(chime_list, i + 1, c,
                          IF chime_list[i].endpoint_type = "Middle"
                          THEN found + 1 ELSE found,
                          threshold)

\* The scan from highest to lowest, from tuple i down
RECURSIVE HighScan(_, _, _, _, _)
HighScan(chime_list, i, chime, found, threshold) ==
    IF i < 1 THEN [edge |-> NoEdge, found |-> found]
    ELSE LET c == chime + EndpointType(chime_list[i].endpoint_type)
         IN  IF c >= threshold
             THEN [edge |-> SomeEdge(chime_list[i].edge), found |-> found]
             ELSE HighScan(chime_list, i - 1, c,
                           IF chime_list[i].endpoint_type = "Middle"
                           THEN found + 1 ELSE found,
                           threshold)

\* As a plausible slip: the count of falsetickers never tested
too_many_falsetickers_Never(found, allow) == FALSE

\* counted more falsetickers than allowed in this iteration
too_many_falsetickers(found, allow) == found > allow

\* The loop over allow; low and high live outside it and keep the value of an
\* earlier iteration when a scan does not break
RECURSIVE FindIntervalLoop(_, _, _, _, _)
FindIntervalLoop(chime_list, n, allow, low, high) ==
    IF ~(2 * allow < n) THEN [kind |-> "None"]
    ELSE LET lower == LowScan(chime_list, 1, 0, 0, n - allow)
             upper == HighScan(chime_list, Len(chime_list), 0, lower.found, n - allow)
             new_low == IF lower.edge.some THEN lower.edge ELSE low
             new_high == IF upper.edge.some THEN upper.edge ELSE high
         IN  IF too_many_falsetickers(upper.found, allow)
             THEN FindIntervalLoop(chime_list, n, allow + 1, new_low, new_high)
             ELSE IF new_low.some /\ new_high.some
             THEN [kind |-> "Some", low |-> new_low.edge, high |-> new_high.edge,
                   allow |-> allow]
             ELSE FindIntervalLoop(chime_list, n, allow + 1, new_low, new_high)

\* As a plausible slip: no falseticker is ever allowed
find_interval_NoRetry(chime_list) ==
    LET n == Len(chime_list) \div 3
        lower == LowScan(chime_list, 1, 0, 0, n)
        upper == HighScan(chime_list, Len(chime_list), 0, lower.found, n)
    IN  IF 0 < n /\ upper.found = 0 /\ lower.edge.some /\ upper.edge.some
        THEN [kind |-> "Some", low |-> lower.edge.edge, high |-> upper.edge.edge,
              allow |-> 0]
        ELSE [kind |-> "None"]

\* As a plausible slip: the survivors ranked by stratum alone
survivor_metric_StratumOnly(p, local_clock_time) ==
    DurMul(MAX_DISTANCE, p.last_packet.stratum)

\* find_interval: None, or Some((low, high)); `allow` is the iteration that
\* returned
find_interval(chime_list) ==
    FindIntervalLoop(chime_list, Len(chime_list) \div 3, 0, NoEdge, NoEdge)

\* As a plausible slip: the endpoint type not tested
is_outside_NoTypeTest(candidate, low, high) ==
    candidate.edge < low \/ candidate.edge > high

is_outside(candidate, low, high) ==
    \/ candidate.edge < low
    \/ candidate.edge > high
    \/ candidate.endpoint_type # "Middle"

survivor_metric(p, local_clock_time) ==
    DurAdd(DurMul(MAX_DISTANCE, p.last_packet.stratum), root_distance(p, local_clock_time))

\* filter_survivor: the survivor, if any, as a sequence of length 0 or 1
filter_survivor(candidate, local_clock_time, low, high) ==
    IF is_outside(candidate, low, high) THEN <<>>
    ELSE << [p |-> candidate.peer,
             metric |-> survivor_metric(candidate.peer, local_clock_time)] >>

RECURSIVE FilterMap(_, _, _, _, _)
FilterMap(chime_list, local_clock_time, low, high, n) ==
    IF n = 0 THEN <<>>
    ELSE FilterMap(chime_list, local_clock_time, low, high, n - 1)
         \o filter_survivor(chime_list[n], local_clock_time, low, high)

\* As a plausible slip: every middle kept when no interval was found
construct_survivors_KeepAll(chime_list, local_clock_time) ==
    LET interval == find_interval(chime_list)
        lowest == IF chime_list = <<>> THEN ZERO ELSE chime_list[1].edge
        highest == IF chime_list = <<>> THEN ZERO ELSE chime_list[Len(chime_list)].edge
    IN  IF interval.kind = "Some"
        THEN FilterMap(chime_list, local_clock_time, interval.low, interval.high,
                       Len(chime_list))
        ELSE FilterMap(chime_list, local_clock_time, lowest, highest, Len(chime_list))

construct_survivors(chime_list, local_clock_time) ==
    LET interval == find_interval(chime_list)
    IN  IF interval.kind = "Some"
        THEN FilterMap(chime_list, local_clock_time, interval.low, interval.high,
                       Len(chime_list))
        ELSE <<>>

----------------------------------------------------------------------------
\* Selection among several peers: construct_candidate_list, then
\* construct_survivors on the list it returned

MaxPeers == 4

SelectClockTime == Seconds(60)
SelectSystemPoll == from_exponent(14)

\* A peer measured at SelectClockTime with no delay and no jitter: its root
\* distance is the dispersion of its statistics
SelectPeer(offset, dispersion, stratum) ==
    [statistics |-> [offset |-> offset, delay |-> ZERO,
                     dispersion |-> dispersion, jitter |-> 0],
     last_packet |-> [DefaultPacket EXCEPT !.stratum = stratum, !.reference_id = 9],
     time |-> SelectClockTime,
     our_id |-> 0]

\* offsets and root distances in duration units; MAX_DISTANCE is 256 of them
SelectPeers ==
    { SelectPeer(-50, 150, 2), SelectPeer(0, 150, 1), SelectPeer(60, 90, 3),
      SelectPeer(800, 50, 2), SelectPeer(0, 300, 1), SelectPeer(0, 40, 2),
      SelectPeer(-150, 100, 2), SelectPeer(50, 100, 2) }

\* the peers of a list are different objects: peer_id tells them apart
WithPeerId(peers) == [i \in 1..Len(peers) |-> [peer_id |-> i] @@ peers[i]]

PeerLists == UNION { [1..n -> SelectPeers] : n \in 0..MaxPeers }

InitSelect ==
    /\ NoTask
    /\ statistics = DefaultStatistics
    /\ last_measurements = NewRegister
    /\ last_packet = DefaultPacket
    /\ time = TS_ZERO
    /\ our_id = 0
    /\ host_poll = ZERO
    /\ burst = 0
    /\ out_date = TS_ZERO
    /\ next_date = TS_ZERO
    /\ reach = 0
    /\ aborted = FALSE
    /\ op = "input"
    /\ \E peers \in PeerLists :
          /\ \A i \in 1..Len(peers) :
                accept_synchronization(peers[i], SelectClockTime, SelectSystemPoll)
          /\ arg = [valid_associations |-> WithPeerId(peers),
                    local_clock_time |-> SelectClockTime]
    /\ ret = NoRet
    /\ calls = 0
    /\ inserted = <<>>
    /\ events = <<>>

ConstructCandidateList ==
    /\ ~aborted
    /\ op = "input"
    /\ op' = "construct_candidate_list"
    /\ ret' = [kind |-> "Vec",
               chime_list |-> construct_candidate_list(arg.valid_associations,
                                                       arg.local_clock_time)]
    /\ calls' = calls + 1
    /\ UNCHANGED task_vars
    /\ UNCHANGED <<peer_vars, aborted, arg, inserted, events>>

ConstructSurvivors ==
    /\ ~aborted
    /\ op = "construct_candidate_list"
    /\ op' = "construct_survivors"
    /\ ret' = [kind |-> "Vec",
               chime_list |-> ret.chime_list,
               interval |-> find_interval(ret.chime_list),
               survivors |-> construct_survivors(ret.chime_list, arg.local_clock_time)]
    /\ calls' = calls + 1
    /\ UNCHANGED task_vars
    /\ UNCHANGED <<peer_vars, aborted, arg, inserted, events>>

NextSelect == ConstructCandidateList \/ ConstructSurvivors

SpecSelect == InitSelect /\ [][NextSelect]_vars

\* The running counts of the two scans, stated on positions of the list

CountType(list, positions, endpoint_type) ==
    Cardinality({j \in positions : list[j].endpoint_type = endpoint_type})

LowBreaks(list, threshold) ==
    {i \in 1..Len(list) :
        CountType(list, 1..i, "Lower") - CountType(list, 1..i, "Upper") >= threshold}

HighBreaks(list, threshold) ==
    {i \in 1..Len(list) :
        CountType(list, i..Len(list), "Upper") - CountType(list, i..Len(list), "Lower")
            >= threshold}

SetMin(S) == CHOOSE x \in S : \A y \in S : x <= y
SetMax(S) == CHOOSE x \in S : \A y \in S : x >= y

MiddlesPassed(list, threshold) ==
    LET lows == LowBreaks(list, threshold)
        highs == HighBreaks(list, threshold)
        before == IF lows = {} THEN 1..Len(list) ELSE 1..(SetMin(lows) - 1)
        after == IF highs = {} THEN 1..Len(list) ELSE (SetMax(highs) + 1)..Len(list)
    IN  CountType(list, before, "Middle") + CountType(list, after, "Middle")

AllowSucceeds(list, n, allow) ==
    /\ 2 * allow < n
    /\ LowBreaks(list, n - allow) # {}
    /\ HighBreaks(list, n - allow) # {}
    /\ MiddlesPassed(list, n - allow) <= allow

\* the number of correctness intervals [offset - distance, offset + distance]
\* that contain x
Overlap(peers, local_clock_time, x) ==
    Cardinality({i \in 1..Len(peers) :
        /\ peers[i].statistics.offset - root_distance(peers[i], local_clock_time) <= x
        /\ x <= peers[i].statistics.offset + root_distance(peers[i], local_clock_time)})

Edges(list) == {list[i].edge : i \in 1..Len(list)}

\* no Lower edge of the list coincides with an Upper edge
TieFree(list) ==
    \A i \in 1..Len(list) : \A j \in 1..Len(list) :
        (list[i].edge = list[j].edge /\ list[i].endpoint_type = "Lower")
            => list[j].endpoint_type # "Upper"

\* find_interval returns at the smallest allow whose two scans both break with
\* at most allow middles passed, with the edges of the two break points
FindIntervalAsScanned ==
    op = "construct_survivors" =>
        LET list == ret.chime_list
            n == Len(arg.valid_associations)
            good == {a \in 0..n : AllowSucceeds(list, n, a)}
        IN  IF good = {} THEN ret.interval.kind = "None"
            ELSE /\ ret.interval.kind = "Some"
                 /\ ret.interval.allow = SetMin(good)
                 /\ ret.interval.low =
                       list[SetMin(LowBreaks(list, n - SetMin(good)))].edge
                 /\ ret.interval.high =
                       list[SetMax(HighBreaks(list, n - SetMin(good)))].edge

\* low is the lowest and high the highest edge that lies in at least
\* n - allow correctness intervals
IntervalIsOverlap ==
    LET list == ret.chime_list
        n == Len(arg.valid_associations)
        within == {e \in Edges(list) :
                      Overlap(arg.valid_associations, arg.local_clock_time, e)
                          >= n - ret.interval.allow}
    IN  /\ within # {}
        /\ ret.interval.low = SetMin(within)
        /\ ret.interval.high = SetMax(within)

\* C14 as stated: for every candidate list of n peers sorted by edge,
\* find_interval returns (low, high) for the smallest allow with 2*allow < n
\* whose scans both reach n - allow with at most allow middles passed, low
\* being the lowest and high the highest edge at which at least n - allow
\* correctness intervals overlap, and None when there is no such allow.
C14_Original_IntervalIsOverlap ==
    /\ FindIntervalAsScanned
    /\ (op = "construct_survivors" /\ ret.interval.kind = "Some") => IntervalIsOverlap

\* C14 as amended: the same, with low and high the edges at which the two
\* scans break; they are the lowest and the highest edge lying in at least
\* n - allow correctness intervals when no Lower edge of the list coincides
\* with an Upper edge (with such a tie the result depends on the order of the
\* tied tuples).
C14_FindInterval ==
    /\ FindIntervalAsScanned
    /\ (op = "construct_survivors" /\ ret.interval.kind = "Some"
        /\ TieFree(ret.chime_list)) => IntervalIsOverlap

\* C14 witness: three peers, one an outlier: no interval with allow = 0, and
\* with allow = 1 the interval in which the other two overlap
C14_Witness_OutlierAllowed ==
    /\ op = "construct_survivors"
    /\ Len(arg.valid_associations) = 3
    /\ TieFree(ret.chime_list)
    /\ ret.interval.kind = "Some" /\ ret.interval.allow = 1
    /\ arg.valid_associations[3].statistics.offset > ret.interval.high

\* The list is three tuples per peer in ascending order of edge, from peers
\* whose root distance is not negative
CandidateListSorted ==
    /\ Len(ret.chime_list) = 3 * Len(arg.valid_associations)
    /\ \A i \in 1..(Len(ret.chime_list) - 1) :
          ret.chime_list[i].edge <= ret.chime_list[i + 1].edge
    /\ \A i \in 1..Len(arg.valid_associations) :
          root_distance(arg.valid_associations[i], arg.local_clock_time) >= ZERO

\* C37: on the list construct_candidate_list returns for peers of
\* non-negative root distance, three tuples per peer in ascending order of
\* edge, an interval find_interval returns has low <= high
C37_LowNotAboveHigh ==
    /\ op \in {"construct_candidate_list", "construct_survivors"} => CandidateListSorted
    /\ (op = "construct_survivors" /\ ret.interval.kind = "Some")
       => ret.interval.low <= ret.interval.high

\* C37 witness: four peers of which one is allowed as a falseticker, the
\* iteration with allow = 0 having found no interval; the interval returned
\* has low below high
C37_Witness_SecondIteration ==
    /\ op = "construct_survivors"
    /\ Len(arg.valid_associations) = 4
    /\ ret.interval.kind = "Some"
    /\ ret.interval.allow = 1
    /\ ret.interval.low < ret.interval.high

SurvivorIds == {ret.survivors[i].p.peer_id : i \in 1..Len(ret.survivors)}

\* C15: whenever construct_survivors returns a non-empty set for a list of n
\* peers, it holds at least n - allow distinct peers with 2*allow < n: a
\* strict majority of the peers.
C15_SurvivorsAreMajority ==
    (op = "construct_survivors" /\ ret.survivors # <<>>)
    => /\ ret.interval.kind = "Some"
       /\ 2 * ret.interval.allow < Len(arg.valid_associations)
       /\ Cardinality(SurvivorIds) >= Len(arg.valid_associations) - ret.interval.allow
       /\ 2 * Cardinality(SurvivorIds) > Len(arg.valid_associations)

\* C15 witness: four peers of which exactly three survive
C15_Witness_ThreeOfFour ==
    /\ op = "construct_survivors"
    /\ Len(arg.valid_associations) = 4
    /\ ret.interval.kind = "Some" /\ ret.interval.allow = 1
    /\ Cardinality(SurvivorIds) = 3

\* C16: if find_interval returns None for a candidate list (the empty list
\* included) construct_survivors returns no survivor; if it returns Some, the
\* survivor set is not empty.
C16_NoneIffNoSurvivors ==
    op = "construct_survivors"
    => /\ ret.interval = find_interval(ret.chime_list)
       /\ ret.interval.kind = "None" => ret.survivors = <<>>
       /\ ret.interval.kind = "Some" => ret.survivors # <<>>

\* C16 witness: three peers with disjoint correctness intervals, no survivor
C16_Witness_NoConsensus ==
    /\ op = "construct_survivors"
    /\ Len(arg.valid_associations) = 3
    /\ \A e \in Edges(ret.chime_list) :
          Overlap(arg.valid_associations, arg.local_clock_time, e) = 1
    /\ ret.interval.kind = "None"
    /\ ret.survivors = <<>>

\* C17: the survivors are exactly the peers whose Middle tuple has
\* low <= edge <= high, bounds included; Lower and Upper tuples produce no
\* survivor, so every peer appears at most once, and every survivor's offset
\* lies inside the returned interval.
C17_SurvivorsAreMiddlesInside ==
    (op = "construct_survivors" /\ ret.interval.kind = "Some")
    => /\ SurvivorIds =
             {i \in 1..Len(arg.valid_associations) :
                 /\ ret.interval.low <= arg.valid_associations[i].statistics.offset
                 /\ arg.valid_associations[i].statistics.offset <= ret.interval.high}
       /\ Len(ret.survivors) = Cardinality(SurvivorIds)
       /\ \A i \in 1..Len(ret.survivors) :
             /\ ret.survivors[i].p = arg.valid_associations[ret.survivors[i].p.peer_id]
             /\ ret.interval.low <= ret.survivors[i].p.statistics.offset
             /\ ret.survivors[i].p.statistics.offset <= ret.interval.high

\* C17 witness: a survivor whose offset is the bound of the interval, and a
\* peer left out whose Upper edge lies inside the interval
C17_Witness_BoundIncluded ==
    /\ op = "construct_survivors" /\ ret.interval.kind = "Some"
    /\ \E i \in 1..Len(ret.survivors) :
          ret.survivors[i].p.statistics.offset \in {ret.interval.low, ret.interval.high}
    /\ \E j \in 1..Len(ret.chime_list) :
          /\ ret.chime_list[j].endpoint_type = "Upper"
          /\ ret.chime_list[j].peer.peer_id \notin SurvivorIds
          /\ ret.interval.low <= ret.chime_list[j].edge
          /\ ret.chime_list[j].edge <= ret.interval.high

SurvivorStratum(i) == ret.survivors[i].p.last_packet.stratum
SurvivorDistance(i) == root_distance(ret.survivors[i].p, arg.local_clock_time)

\* C18 as stated: the metric is a lexicographic ordering: of two peers that
\* pass the acceptance check the one with the lower stratum has the strictly
\* smaller metric whatever the root distances, and of two peers of equal
\* stratum the one with the lower root distance has the smaller metric.
C18_Original_MetricLexicographic ==
    op = "construct_survivors"
    => \A i \in 1..Len(ret.survivors) : \A j \in 1..Len(ret.survivors) :
          /\ SurvivorStratum(i) < SurvivorStratum(j)
                => ret.survivors[i].metric < ret.survivors[j].metric
          /\ (SurvivorStratum(i) = SurvivorStratum(j)
              /\ SurvivorDistance(i) < SurvivorDistance(j))
                => ret.survivors[i].metric < ret.survivors[j].metric

\* C18 as amended: the metric is MAX_DISTANCE * stratum + root_distance: of
\* two accepted peers the one with the lower stratum has the strictly smaller
\* metric exactly when its root distance exceeds the other's by less than
\* MAX_DISTANCE per stratum step (so whenever the root distances differ by
\* less than MAX_DISTANCE), and of two peers of equal stratum the one with the
\* lower root distance has the smaller metric.
C18_MetricWeightsStratum ==
    op = "construct_survivors"
    => \A i \in 1..Len(ret.survivors) : \A j \in 1..Len(ret.survivors) :
          /\ ret.survivors[i].metric
                = MAX_DISTANCE * SurvivorStratum(i) + SurvivorDistance(i)
          /\ SurvivorStratum(i) < SurvivorStratum(j)
                => (ret.survivors[i].metric < ret.survivors[j].metric
                    <=> SurvivorDistance(i) - SurvivorDistance(j)
                          < MAX_DISTANCE * (SurvivorStratum(j) - SurvivorStratum(i)))
          /\ (SurvivorStratum(i) < SurvivorStratum(j)
              /\ SurvivorDistance(i) - SurvivorDistance(j) < MAX_DISTANCE)
                => ret.survivors[i].metric < ret.survivors[j].metric
          /\ (SurvivorStratum(i) = SurvivorStratum(j)
              /\ SurvivorDistance(i) < SurvivorDistance(j))
                => ret.survivors[i].metric < ret.survivors[j].metric

\* C18 witness: two survivors, the one of lower stratum with the larger root
\* distance and still the smaller metric, and two of equal stratum
C18_Witness_LowerStratumFirst ==
    /\ op = "construct_survivors"
    /\ \E i \in 1..Len(ret.survivors) : \E j \in 1..Len(ret.survivors) :
          /\ SurvivorStratum(i) < SurvivorStratum(j)
          /\ SurvivorDistance(i) > SurvivorDistance(j)
          /\ ret.survivors[i].metric < ret.survivors[j].metric
    /\ \E i \in 1..Len(ret.survivors) : \E j \in 1..Len(ret.survivors) :
          /\ SurvivorStratum(i) = SurvivorStratum(j)
          /\ SurvivorDistance(i) < SurvivorDistance(j)

----------------------------------------------------------------------------
\* Peer::accept_synchronization as a call of its own, on a peer in any state
\* that ingest and the clock filter may have left

AcceptHeaders ==
    { [DefaultPacket EXCEPT !.leap = l, !.stratum = st, !.root_delay = rd,
                            !.root_dispersion = rp, !.reference_id = id] :
      l \in {"NoWarning", "Unknown"}, st \in {1, 2, 15, 16},
      rd \in {ZERO, 2 * ONE}, rp \in {ZERO, 100}, id \in {0, 9} }

AcceptStatistics ==
    { [offset |-> ZERO, delay |-> ZERO, dispersion |-> d, jitter |-> j] :
      d \in {ZERO, 200, 260}, j \in {0, 60} }

AcceptInputs ==
    { [local_clock_time |-> lc, system_poll |-> sp] :
      lc \in {Seconds(60), Seconds(60) + 4 * PhiPeriod},
      sp \in {from_exponent(MIN_POLL), from_exponent(14)} }

InitAccept ==
    /\ NoTask
    /\ statistics \in AcceptStatistics
    /\ last_measurements = NewRegister
    /\ last_packet \in AcceptHeaders
    /\ time = Seconds(60)
    /\ our_id \in {0, 9}
    /\ host_poll = ZERO
    /\ burst = 0
    /\ out_date = TS_ZERO
    /\ next_date = TS_ZERO
    /\ reach \in {0, 1}
    /\ aborted = FALSE
    /\ op = "input"
    /\ arg \in AcceptInputs
    /\ ret = NoRet
    /\ calls = 0
    /\ inserted = <<>>
    /\ events = <<>>

AcceptSynchronization ==
    /\ ~aborted
    /\ op = "input"
    /\ op' = "accept_synchronization"
    /\ ret' = [kind |-> "bool",
               value |-> accept_synchronization(
                            [statistics |-> statistics, last_packet |-> last_packet,
                             time |-> time, our_id |-> our_id],
                            arg.local_clock_time, arg.system_poll)]
    /\ calls' = calls + 1
    /\ UNCHANGED task_vars
    /\ UNCHANGED <<peer_vars, aborted, arg, inserted, events>>

NextAccept == AcceptSynchronization

SpecAccept == InitAccept /\ [][NextAccept]_vars

\* half the total delay (not below half of MIN_DISPERSION) plus total
\* dispersion plus the dispersion accrued since the last update plus jitter
RootDistanceSum ==
    TruncDiv(IF last_packet.root_delay + statistics.delay > MIN_DISPERSION
             THEN last_packet.root_delay + statistics.delay ELSE MIN_DISPERSION, 2)
    + last_packet.root_dispersion + statistics.dispersion
    + TruncDiv((arg.local_clock_time - time) * 15, 1000000)
    + statistics.jitter

StratumAccepted == last_packet.leap # "Unknown" /\ last_packet.stratum < 16

DistanceAccepted ==
    RootDistanceSum <= MAX_DISTANCE + TruncDiv(arg.system_poll * 15, 1000000)

LoopDetected == last_packet.stratum # 1 /\ last_packet.reference_id = our_id

\* C19: accept_synchronization returns true iff the last header is
\* synchronized with stratum < 16, root_distance(local_clock_time) <=
\* MAX_DISTANCE + phi * system_poll, and not (stratum != 1 and
\* last_header.reference_id == our_id); a stratum-1 peer is never rejected by
\* the loop check, and the reach register plays no part.
C19_AcceptIffThreeTests ==
    op = "accept_synchronization"
    => /\ ret.value <=> (StratumAccepted /\ DistanceAccepted /\ ~LoopDetected)
       /\ (last_packet.stratum = 1 /\ StratumAccepted /\ DistanceAccepted) => ret.value
       /\ (reach = 0 /\ StratumAccepted /\ DistanceAccepted /\ ~LoopDetected) => ret.value

\* C19 witness: an unreachable stratum-1 peer whose reference id is our own and
\* whose root distance is exactly the threshold has been accepted
C19_Witness_UnreachableStratumOne ==
    /\ op = "accept_synchronization" /\ ret.value
    /\ reach = 0
    /\ last_packet.stratum = 1 /\ last_packet.reference_id = our_id
    /\ RootDistanceSum = MAX_DISTANCE + TruncDiv(arg.system_poll * 15, 1000000)

----------------------------------------------------------------------------
\* The poll schedule of a peer: poll_update called with any requested
\* interval, and packets ingested in between

MaxPollCalls == 3

PollIntervals ==
    { -ONE, ZERO, from_exponent(MIN_POLL) - 1, from_exponent(MIN_POLL), from_exponent(6),
      from_exponent(MAX_POLL), from_exponent(MAX_POLL) + 1, DurationMax }

PollClockTimes == {Seconds(60), Seconds(200)}

\* an acceptable packet, a broadcast one, and an unsynchronized one
PollPackets ==
    { [DefaultPacket EXCEPT !.leap = l, !.mode = m, !.stratum = 1, !.poll = 6,
                            !.origin_timestamp = Seconds(10),
                            !.receive_timestamp = Seconds(15),
                            !.transmit_timestamp = Seconds(20)] :
      l \in {"NoWarning", "Unknown"}, m \in {"Client", "Broadcast"} }

InitPoll ==
    /\ NoTask
    /\ statistics = DefaultStatistics
    /\ last_measurements = NewRegister
    /\ last_packet = DefaultPacket
    /\ time = TS_ZERO
    /\ our_id = 0
    /\ host_poll \in {ZERO, from_exponent(6), DurationMax}
    /\ burst \in {0, 2}
    /\ out_date \in {TS_ZERO, Seconds(50)}
    /\ next_date \in {TS_ZERO, Seconds(100)}
    /\ reach = 0
    /\ aborted = FALSE
    /\ op = "new"
    /\ arg = NoArg
    /\ ret = NoRet
    /\ calls = 0
    /\ inserted = <<>>
    /\ events = <<>>

PollUpdate ==
    /\ ~aborted
    /\ calls < MaxPollCalls
    /\ \E local_clock_time \in PollClockTimes : \E poll_interval \in PollIntervals :
          LET schedule == poll_update(burst, next_date, out_date, last_packet.poll,
                                      local_clock_time, poll_interval)
          IN  /\ host_poll' = schedule.host_poll
              /\ next_date' = schedule.next_date
              /\ arg' = [local_clock_time |-> local_clock_time,
                         poll_interval |-> poll_interval]
    /\ op' = "poll_update"
    /\ ret' = [kind |-> "Unit"]
    /\ calls' = calls + 1
    /\ UNCHANGED task_vars
    /\ UNCHANGED <<statistics, last_measurements, last_packet, time, our_id, burst,
                   out_date, reach, aborted, inserted, events>>

PollIngest ==
    /\ ~aborted
    /\ calls < MaxPollCalls
    /\ \E local_clock_time \in PollClockTimes : \E packet \in PollPackets :
          LET r == update_with_packet(
                      [last_packet |-> last_packet, host_poll |-> host_poll,
                       burst |-> burst, out_date |-> out_date,
                       next_date |-> next_date, reach |-> reach],
                      local_clock_time, 1, packet, Seconds(25))
          IN  /\ last_packet' = r.last_packet
              /\ host_poll' = r.host_poll
              /\ next_date' = r.next_date
              /\ reach' = r.reach
              /\ aborted' = r.aborted
              /\ ret' = r.ret
              /\ arg' = [packet |-> packet, system_precision |-> 1,
                         destination_timestamp |-> Seconds(25),
                         local_clock_time |-> local_clock_time]
    /\ op' = "update_with_packet"
    /\ calls' = calls + 1
    /\ UNCHANGED task_vars
    /\ UNCHANGED <<statistics, last_measurements, time, our_id, burst, out_date,
                   inserted, events>>

NextPoll == PollUpdate \/ PollIngest

SpecPoll == InitPoll /\ [][NextPoll]_vars

\* C20: after every poll_update call, and so after every ingest that passed
\* the header tests, host_poll lies between 2^4 s and 2^17 s inclusive,
\* whatever interval was requested and whatever host_poll was before.
C20_HostPollClamped ==
    (op = "poll_update" \/ (op = "update_with_packet" /\ ret.kind # "None"))
    => (16 * ONE <= host_poll /\ host_poll <= 131072 * ONE)

\* C20 witness: a request above 2^17 s was clamped to 2^17 s
C20_Witness_LargeRequestClamped ==
    /\ op = "poll_update"
    /\ arg.poll_interval > 131072 * ONE
    /\ host_poll = 131072 * ONE

\* This step calls poll_update, directly or from update_with_packet
PollUpdateCalled ==
    /\ calls' = calls + 1
    /\ op' = "poll_update" \/ (op' = "update_with_packet" /\ ret'.kind # "None")

\* The interval poll_update is asked for in this step
RequestedInterval == IF op' = "poll_update" THEN arg'.poll_interval ELSE host_poll

\* The requested interval brought into 2^4 s .. 2^17 s
ClampedRequest ==
    IF RequestedInterval < 16 * ONE THEN 16 * ONE
    ELSE IF RequestedInterval > 131072 * ONE THEN 131072 * ONE
    ELSE RequestedInterval

AdvertisedPoll == from_exponent(last_packet'.poll)

\* min(host_poll, advertised) raised to 2^4 s
NonBurstOffset ==
    LET capped == IF host_poll' < AdvertisedPoll THEN host_poll' ELSE AdvertisedPoll
    IN  IF capped < 16 * ONE THEN 16 * ONE ELSE capped

\* C30 as stated: with burst = 0, next_date = out_date + offset, offset being
\* at least 2^4 s and never more than the advertised poll interval
C30_Original_OffsetWithinAdvertised ==
    [][ (PollUpdateCalled /\ burst = 0)
        => /\ next_date' = out_date + NonBurstOffset
           /\ NonBurstOffset >= 16 * ONE
           /\ NonBurstOffset <= AdvertisedPoll ]_vars

\* C30: with burst = 0, poll_update takes offset = max(min(host_poll,
\* 2^last_packet.poll), 2^4 s), host_poll being already clamped: at least
\* 2^4 s, and no more than the advertised poll interval unless that is below
\* 2^4 s. next_date is out_date + offset, or local_clock_time + 1 s when
\* out_date + offset lies before local_clock_time
C30_NonBurstSchedule ==
    [][ (PollUpdateCalled /\ burst = 0)
        => /\ host_poll' = ClampedRequest
           /\ next_date' = IF out_date + NonBurstOffset < arg'.local_clock_time
                            THEN arg'.local_clock_time + ONE
                            ELSE out_date + NonBurstOffset
           /\ NonBurstOffset >= 16 * ONE
           /\ AdvertisedPoll >= 16 * ONE => NonBurstOffset <= AdvertisedPoll
           /\ AdvertisedPoll < 16 * ONE => NonBurstOffset = 16 * ONE ]_vars

\* C30 witness: after a packet advertising 2^6 s, a request for 2^17 s was
\* cut to the advertised 64 s and the next poll set 64 s after the last one
C30_Witness_CappedByAdvertised ==
    /\ op = "poll_update" /\ burst = 0
    /\ last_packet.poll = 6
    /\ host_poll = 131072 * ONE
    /\ out_date = Seconds(50)
    /\ arg.local_clock_time = Seconds(60)
    /\ next_date = Seconds(114)

----------------------------------------------------------------------------
\* The peer task: PeerTask::run, the two handlers it selects between, and
\* the peer of ntp_proto as far as the task sees it

\* Consecutive unanswered polls after which the peer refuses to poll
UnreachableTries == 8

\* Peer::generate_poll_message, as the task sees it: the peer refuses once
\* eight consecutive polls went unanswered and the reach register is empty;
\* otherwise the poll shifts the reach register and counts as a try
generate_poll_message(p_reach, p_tries, io_error) ==
    IF p_reach = 0 /\ p_tries >= UnreachableTries
    THEN [kind |-> "Err", error |-> "PeerUnreachable", reach |-> p_reach, tries |-> p_tries]
    ELSE IF io_error
    THEN [kind |-> "Err", error |-> "Io", reach |-> p_reach, tries |-> p_tries]
    ELSE [kind |-> "Ok", error |-> "None", reach |-> ReachPoll(p_reach),
          tries |-> p_tries + 1]

\* What Peer::handle_incoming can answer
IncomingResults ==
    {[kind |-> "Ok", update |-> "NewMeasurement"], [kind |-> "Ok", update |-> "BareUpdate"],
     [kind |-> "Err", update |-> "KissDemobilize"], [kind |-> "Err", update |-> "Other"]}

\* Peer::handle_incoming, as the task sees it: an accepted response marks
\* the peer reachable and ends the run of unanswered polls
handle_incoming(p_reach, p_tries, result) ==
    IF result.kind = "Ok"
    THEN [reach |-> ReachReceived(p_reach), tries |-> 0]
    ELSE [reach |-> p_reach, tries |-> p_tries]

\* The errors after which the task gives the network up
NetworkGoneErrors == {"EHOSTDOWN", "EHOSTUNREACH", "ENETDOWN", "ENETUNREACH"}

\* update_poll_wait: the timer is reset to last_poll_sent plus the poll
\* interval; a timer that had completed stays completed only if the new
\* deadline has passed as well
update_poll_wait(pw, last_poll_sent, still_due) ==
    [pending |-> pw.pending /\ still_due, deadline |-> last_poll_sent + 1]

\* handle_poll that sends before it records the poll and resets the timer
handle_poll_SendFirst(t, pw, now, gen, clock_ok, setup_ok, send) ==
    LET polled == [t EXCEPT !.last_poll_sent = now]
        first  == t.last_send_timestamp = "None"
        snap   == IF first THEN <<>> ELSE <<"UpdatedSnapshot">>
        waited == update_poll_wait(pw, now, FALSE)
        before == <<"last_poll_sent", "poll_wait.reset">>
    IN  IF gen.kind = "Err"
        THEN [task |-> t, poll_wait |-> pw, msgs |-> <<>>, sent |-> 0,
              effects |-> <<>>,
              result |-> IF gen.error = "Io" THEN "NetworkGone" ELSE "Unreachable"]
        ELSE IF ~clock_ok
        THEN [task |-> polled, poll_wait |-> waited, msgs |-> snap, sent |-> 0,
              effects |-> before, result |-> "Exit"]
        ELSE IF ~setup_ok
        THEN [task |-> [polled EXCEPT !.last_send_timestamp = "Some"],
              poll_wait |-> waited, msgs |-> snap, sent |-> 0,
              effects |-> before, result |-> "NetworkGone"]
        ELSE [task |-> [polled EXCEPT !.last_send_timestamp = "Some", !.socket = "Some"],
              poll_wait |-> waited, msgs |-> snap,
              sent |-> IF send = "Ok" THEN 1 ELSE 0,
              effects |-> <<"socket.send">> \o before,
              result |-> IF send \in NetworkGoneErrors THEN "NetworkGone" ELSE "Ok"]

\* handle_poll that polls on when the clock cannot be read, with the send
\* timestamp it had
handle_poll_ClockIgnored(t, pw, now, gen, clock_ok, setup_ok, send) ==
    LET polled == [t EXCEPT !.last_poll_sent = now]
        first  == t.last_send_timestamp = "None"
        snap   == IF first THEN <<>> ELSE <<"UpdatedSnapshot">>
        waited == update_poll_wait(pw, now, FALSE)
        before == <<"last_poll_sent", "poll_wait.reset">>
        stamp  == IF clock_ok THEN "Some" ELSE t.last_send_timestamp
    IN  IF gen.kind = "Err"
        THEN [task |-> t, poll_wait |-> pw, msgs |-> <<>>, sent |-> 0,
              effects |-> <<>>,
              result |-> IF gen.error = "Io" THEN "NetworkGone" ELSE "Unreachable"]
        ELSE IF ~setup_ok
        THEN [task |-> [polled EXCEPT !.last_send_timestamp = stamp],
              poll_wait |-> waited, msgs |-> snap, sent |-> 0,
              effects |-> before, result |-> "NetworkGone"]
        ELSE [task |-> [polled EXCEPT !.last_send_timestamp = stamp, !.socket = "Some"],
              poll_wait |-> waited, msgs |-> snap,
              sent |-> IF send = "Ok" THEN 1 ELSE 0,
              effects |-> before \o <<"socket.send">>,
              result |-> IF send \in NetworkGoneErrors THEN "NetworkGone" ELSE "Ok"]

\* handle_poll that opens the socket and sends without recording when
handle_poll_NoTimestamp(t, pw, now, gen, clock_ok, setup_ok, send) ==
    LET polled == [t EXCEPT !.last_poll_sent = now]
        waited == update_poll_wait(pw, now, FALSE)
        before == <<"last_poll_sent", "poll_wait.reset">>
    IN  IF gen.kind = "Err"
        THEN [task |-> t, poll_wait |-> pw, msgs |-> <<>>, sent |-> 0,
              effects |-> <<>>,
              result |-> IF gen.error = "Io" THEN "NetworkGone" ELSE "Unreachable"]
        ELSE IF ~clock_ok
        THEN [task |-> polled, poll_wait |-> waited, msgs |-> <<>>, sent |-> 0,
              effects |-> before, result |-> "Exit"]
        ELSE IF ~setup_ok
        THEN [task |-> polled, poll_wait |-> waited, msgs |-> <<>>, sent |-> 0,
              effects |-> before, result |-> "NetworkGone"]
        ELSE [task |-> [polled EXCEPT !.socket = "Some"],
              poll_wait |-> waited, msgs |-> <<>>,
              sent |-> IF send = "Ok" THEN 1 ELSE 0,
              effects |-> before \o <<"socket.send">>,
              result |-> IF send \in NetworkGoneErrors THEN "NetworkGone" ELSE "Ok"]

\* handle_poll with its early returns, the time being the number of this
\* poll; effects lists what it did, in order
handle_poll(t, pw, now, gen, clock_ok, setup_ok, send) ==
    LET polled == [t EXCEPT !.last_poll_sent = now]
        first  == t.last_send_timestamp = "None"
        snap   == IF first THEN <<>> ELSE <<"UpdatedSnapshot">>
        waited == update_poll_wait(pw, now, FALSE)
        before == <<"last_poll_sent", "poll_wait.reset">>
    IN  IF gen.kind = "Err"
        THEN [task |-> t, poll_wait |-> pw, msgs |-> <<>>, sent |-> 0,
              effects |-> <<>>,
              result |-> IF gen.error = "Io" THEN "NetworkGone" ELSE "Unreachable"]
        ELSE IF ~clock_ok
        THEN [task |-> polled, poll_wait |-> waited, msgs |-> snap, sent |-> 0,
              effects |-> before, result |-> "Exit"]
        ELSE IF ~setup_ok
        THEN [task |-> [polled EXCEPT !.last_send_timestamp = "Some"],
              poll_wait |-> waited, msgs |-> snap, sent |-> 0,
              effects |-> before, result |-> "NetworkGone"]
        ELSE [task |-> [polled EXCEPT !.last_send_timestamp = "Some", !.socket = "Some"],
              poll_wait |-> waited, msgs |-> snap,
              sent |-> IF send = "Ok" THEN 1 ELSE 0,
              effects |-> before \o <<"socket.send">>,
              result |-> IF send \in NetworkGoneErrors THEN "NetworkGone" ELSE "Ok"]

\* handle_packet that tells run to go on after a demobilize
handle_packet_DemobilizeOk(t, pw, incoming, still_due) ==
    LET waited == update_poll_wait(pw, t.last_poll_sent, still_due)
    IN  IF incoming.kind = "Ok"
        THEN [task |-> [t EXCEPT !.socket = "None"], poll_wait |-> waited,
              msgs |-> IF incoming.update = "BareUpdate"
                       THEN <<"UpdatedSnapshot">> ELSE <<"NewMeasurement">>,
              result |-> "Ok"]
        ELSE IF incoming.update = "KissDemobilize"
        THEN [task |-> t, poll_wait |-> waited, msgs |-> <<"MustDemobilize">>,
              result |-> "Ok"]
        ELSE [task |-> t, poll_wait |-> waited, msgs |-> <<>>, result |-> "Ok"]

\* handle_packet that reports measurements only
handle_packet_Silent(t, pw, incoming, still_due) ==
    LET waited == update_poll_wait(pw, t.last_poll_sent, still_due)
    IN  IF incoming.kind = "Ok"
        THEN [task |-> [t EXCEPT !.socket = "None"], poll_wait |-> waited,
              msgs |-> IF incoming.update = "BareUpdate"
                       THEN <<>> ELSE <<"NewMeasurement">>,
              result |-> "Ok"]
        ELSE IF incoming.update = "KissDemobilize"
        THEN [task |-> t, poll_wait |-> waited, msgs |-> <<"MustDemobilize">>,
              result |-> "Demobilize"]
        ELSE [task |-> t, poll_wait |-> waited, msgs |-> <<>>, result |-> "Ok"]

\* handle_packet that keeps the socket after an accepted response
handle_packet_KeepSocket(t, pw, incoming, still_due) ==
    LET waited == update_poll_wait(pw, t.last_poll_sent, still_due)
    IN  IF incoming.kind = "Ok"
        THEN [task |-> t, poll_wait |-> waited,
              msgs |-> IF incoming.update = "BareUpdate"
                       THEN <<"UpdatedSnapshot">> ELSE <<"NewMeasurement">>,
              result |-> "Ok"]
        ELSE IF incoming.update = "KissDemobilize"
        THEN [task |-> t, poll_wait |-> waited, msgs |-> <<"MustDemobilize">>,
              result |-> "Demobilize"]
        ELSE [task |-> t, poll_wait |-> waited, msgs |-> <<>>, result |-> "Ok"]

\* handle_packet: the timer is reset whatever the peer answers
handle_packet(t, pw, incoming, still_due) ==
    LET waited == update_poll_wait(pw, t.last_poll_sent, still_due)
    IN  IF incoming.kind = "Ok"
        THEN [task |-> [t EXCEPT !.socket = "None"], poll_wait |-> waited,
              msgs |-> IF incoming.update = "BareUpdate"
                       THEN <<"UpdatedSnapshot">> ELSE <<"NewMeasurement">>,
              result |-> "Ok"]
        ELSE IF incoming.update = "KissDemobilize"
        THEN [task |-> t, poll_wait |-> waited, msgs |-> <<"MustDemobilize">>,
              result |-> "Demobilize"]
        ELSE [task |-> t, poll_wait |-> waited, msgs |-> <<>>, result |-> "Ok"]

\* What the socket hands to accept_packet
RecvResults ==
    {[kind |-> "Ok", size |-> 48, timestamp |-> TRUE, errno |-> "None"],
     [kind |-> "Ok", size |-> 48, timestamp |-> FALSE, errno |-> "None"],
     [kind |-> "Ok", size |-> 47, timestamp |-> TRUE, errno |-> "None"],
     [kind |-> "Ok", size |-> 47, timestamp |-> FALSE, errno |-> "None"],
     [kind |-> "Err", size |-> 0, timestamp |-> FALSE, errno |-> "ENETDOWN"],
     [kind |-> "Err", size |-> 0, timestamp |-> FALSE, errno |-> "ECONNREFUSED"]}

\* A receive, the clock read it may need, the peer's answer to the packet
\* and whether the timer stays completed: the last two matter only once the
\* packet is handed to handle_packet
RecvInputs ==
    LET all == {[result |-> r, clock_ok |-> c, incoming |-> i, still_due |-> d] :
                  r \in RecvResults, c \in BOOLEAN, i \in IncomingResults,
                  d \in BOOLEAN}
        handled(in) == in.result.kind = "Ok" /\ in.result.size >= 48
                       /\ (in.result.timestamp \/ in.clock_ok)
    IN  {in \in all : \/ handled(in) /\ (in.result.timestamp => in.clock_ok)
                      \/ ~handled(in) /\ in.still_due /\ in.incoming.update = "Other"
                         /\ (in.result.timestamp => in.clock_ok)}

\* accept_packet that ignores every receive error
accept_packet_IgnoreErrors(result, clock_ok) ==
    IF result.kind = "Ok"
    THEN IF ~result.timestamp /\ ~clock_ok THEN "Panic"
         ELSE IF result.size < 48 THEN "Ignore" ELSE "Accept"
    ELSE "Ignore"

\* accept_packet that gives the network up on every receive error
accept_packet_AllErrorsFatal(result, clock_ok) ==
    IF result.kind = "Ok"
    THEN IF ~result.timestamp /\ ~clock_ok THEN "Panic"
         ELSE IF result.size < 48 THEN "Ignore" ELSE "Accept"
    ELSE "NetworkGone"

\* accept_packet: a receive without a timestamp reads the clock, and panics
\* if that fails
accept_packet(result, clock_ok) ==
    IF result.kind = "Ok"
    THEN IF ~result.timestamp /\ ~clock_ok THEN "Panic"
         ELSE IF result.size < 48 THEN "Ignore" ELSE "Accept"
    ELSE IF result.errno \in NetworkGoneErrors THEN "NetworkGone" ELSE "Ignore"

\* A run that reports an unreachable peer as a network issue
after_poll_AllNetworkIssue(result) ==
    CASE result = "Ok"          -> [msgs |-> <<>>, state |-> "running"]
      [] result = "NetworkGone" -> [msgs |-> <<"NetworkIssue">>, state |-> "stopped"]
      [] result = "Unreachable" -> [msgs |-> <<"NetworkIssue">>, state |-> "stopped"]
      [] result = "Exit"        -> [msgs |-> <<>>, state |-> "exited"]

\* The match of run on what handle_poll returned
after_poll(result) ==
    CASE result = "Ok"          -> [msgs |-> <<>>, state |-> "running"]
      [] result = "NetworkGone" -> [msgs |-> <<"NetworkIssue">>, state |-> "stopped"]
      [] result = "Unreachable" -> [msgs |-> <<"Unreachable">>, state |-> "stopped"]
      [] result = "Exit"        -> [msgs |-> <<>>, state |-> "exited"]

\* What the watch channel of the system snapshot holds when a handler
\* starts and what it holds by the time the handler computes the deadline,
\* the coordinator having published in between; snapshots are told apart by
\* a serial number
Snapshots == {[at_start |-> 1, published |-> 2], [at_start |-> 2, published |-> 3]}

\* A handler that borrows the channel again for each use of the snapshot
system_snapshot_Borrowed(at_start, published) == published

\* The local system_snapshot of handle_poll and of handle_packet: the copy
\* taken from the channel in the handler's first statement, whatever the
\* channel holds by the time the copy is used
system_snapshot(at_start, published) == at_start

\* Bounds of the runs explored: polls served, and responses accepted, of
\* which the first may answer any poll and the later ones answer one of the
\* first MaxResponses polls
MaxPolls == 9
MaxResponses == 2

SendResults == {"Ok", "ENETUNREACH", "EPERM"}

\* Poll generation, the clock read, the socket setup and the send: each one
\* is reached only if the ones before it succeeded
PollInputs ==
    {[io_error |-> TRUE, clock_ok |-> TRUE, setup_ok |-> TRUE, send |-> "Ok"],
     [io_error |-> FALSE, clock_ok |-> FALSE, setup_ok |-> TRUE, send |-> "Ok"],
     [io_error |-> FALSE, clock_ok |-> TRUE, setup_ok |-> FALSE, send |-> "Ok"]}
    \cup {[io_error |-> FALSE, clock_ok |-> TRUE, setup_ok |-> TRUE, send |-> s] :
            s \in SendResults}

task_frame == <<statistics, last_measurements, last_packet, time, our_id, host_poll,
                burst, out_date, next_date, inserted, events>>

\* The poll timer completes: the deadline passes, or the test notifies. It
\* completes whether or not the task is still there to serve it
PollWaitNotify ==
    /\ ~poll_wait.pending
    /\ calls < MaxPolls \/ task.state # "running"
    /\ poll_wait' = [poll_wait EXCEPT !.pending = TRUE]
    /\ UNCHANGED <<task, msg_for_system, sent, reach, aborted, op, arg, ret, calls>>
    /\ UNCHANGED task_frame

\* The first branch of the select in run: the timer has completed
HandlePoll ==
    /\ task.state = "running"
    /\ poll_wait.pending
    /\ \E in \in PollInputs, snap \in Snapshots :
         LET at_start == snap.at_start
             published == snap.published
             io_error == in.io_error
             clock_ok == in.clock_ok
             setup_ok == in.setup_ok
             send == in.send
             gen == generate_poll_message(reach, task.tries, io_error)
             r   == handle_poll(task, [poll_wait EXCEPT !.pending = FALSE], calls + 1,
                                gen, clock_ok, setup_ok, send)
             a   == after_poll(r.result)
         IN  /\ reach' = gen.reach
             /\ task' = [r.task EXCEPT !.state = a.state, !.tries = gen.tries,
                                        !.accepted = IF gen.kind = "Ok" THEN 0 ELSE @]
             /\ poll_wait' = r.poll_wait
             /\ msg_for_system' = msg_for_system \o r.msgs \o a.msgs
             /\ sent' = sent + r.sent
             /\ op' = "handle_poll"
             /\ arg' = NoArg
             /\ ret' = [kind |-> r.result, effects |-> r.effects,
                        detail |-> IF r.result \in {"Ok", "NetworkGone"} /\ r.effects # <<>>
                                      /\ r.effects[Len(r.effects)] = "socket.send"
                                   THEN send ELSE gen.error,
                        snapshots |->
                          [read |-> at_start,
                           peer |-> system_snapshot(at_start, published),
                           wait |-> IF r.effects = <<>> THEN at_start
                                    ELSE system_snapshot(at_start, published)]]
    /\ calls' = calls + 1
    /\ UNCHANGED aborted
    /\ UNCHANGED task_frame

\* The second branch: the socket, if there is one, has something to report
HandleRecv ==
    /\ task.state = "running"
    /\ task.socket = "Some"
    /\ \E in \in RecvInputs, snap \in Snapshots :
         LET at_start == snap.at_start
             published == snap.published
             result == in.result
             clock_ok == in.clock_ok
             incoming == in.incoming
             still_due == in.still_due
             accepted == accept_packet(result, clock_ok)
             p == handle_incoming(reach, task.tries, incoming)
             r == handle_packet(task, poll_wait, incoming, still_due)
         IN  /\ incoming.kind = "Ok"
                => /\ task.responses < MaxResponses
                   /\ task.responses = 0 \/ calls <= MaxResponses
             /\ op' = "accept_packet"
             /\ arg' = NoArg
             /\ CASE accepted = "Panic" ->
                       /\ aborted' = TRUE
                       /\ task' = [task EXCEPT !.state = "panicked"]
                       /\ ret' = [kind |-> "Panic", effects |-> <<>>,
                                  detail |-> IF result.size < 48 THEN "TooShort" ELSE "None"]
                       /\ UNCHANGED <<poll_wait, msg_for_system, reach>>
                  [] accepted = "Ignore" ->
                       /\ ret' = [kind |-> "Ignore", effects |-> <<>>,
                                  detail |-> IF result.kind = "Ok" THEN "TooShort"
                                             ELSE result.errno]
                       /\ UNCHANGED <<task, poll_wait, msg_for_system, reach, aborted>>
                  [] accepted = "NetworkGone" ->
                       /\ task' = [task EXCEPT !.state = "stopped"]
                       /\ msg_for_system' = Append(msg_for_system, "NetworkIssue")
                       /\ ret' = [kind |-> "NetworkGone", effects |-> <<>>, detail |-> result.errno]
                       /\ UNCHANGED <<poll_wait, reach, aborted>>
                  [] accepted = "Accept" /\ task.last_send_timestamp = "None" ->
                       /\ ret' = [kind |-> "Discard", effects |-> <<>>, detail |-> "None"]
                       /\ UNCHANGED <<task, poll_wait, msg_for_system, reach, aborted>>
                  [] accepted = "Accept" /\ task.last_send_timestamp = "Some" ->
                       /\ reach' = p.reach
                       /\ task' = [r.task EXCEPT
                                     !.tries = p.tries,
                                     !.responses = IF incoming.kind = "Ok" THEN @ + 1 ELSE @,
                                     !.accepted = IF incoming.kind = "Ok" THEN @ + 1 ELSE @,
                                     !.state = IF r.result = "Demobilize"
                                               THEN "stopped" ELSE "running"]
                       /\ poll_wait' = r.poll_wait
                       /\ msg_for_system' = msg_for_system \o r.msgs
                       /\ ret' = [kind |-> r.result, effects |-> <<"poll_wait.reset">>,
                                  detail |-> incoming.update,
                                  snapshots |->
                                    [read |-> at_start,
                                     peer |-> system_snapshot(at_start, published),
                                     wait |-> system_snapshot(at_start, published)]]
                       /\ UNCHANGED aborted
    /\ UNCHANGED <<sent, calls>>
    /\ UNCHANGED task_frame

NextTask == PollWaitNotify \/ HandlePoll \/ HandleRecv

SpecTask == InitPeer /\ [][NextTask]_vars

\* The timer completes again and again, and the select of run, which picks
\* among its ready branches at random, does not pass over a timer that is
\* completed again and again for ever
SpecTaskLive ==
    /\ InitPeer
    /\ [][NextTask]_vars
    /\ WF_vars(PollWaitNotify)
    /\ SF_vars(HandlePoll)

\* This step is run handing a received packet to handle_packet, the peer
\* answering it with `update`
PacketHandled(update) ==
    /\ task.state = "running"
    /\ op' = "accept_packet"
    /\ poll_wait.pending \/ ~poll_wait'.pending
    /\ ret'.kind \in {"Ok", "Demobilize"}
    /\ ret'.detail = update

\* How often message m was sent to the coordinator
RECURSIVE Count(_, _)
Count(msgs, m) ==
    IF msgs = <<>> THEN 0
    ELSE (IF Head(msgs) = m THEN 1 ELSE 0) + Count(Tail(msgs), m)

\* C21: a response the peer rejects with KissDemobilize makes the task send
\* one MustDemobilize to the coordinator and leave its loop; from then on it
\* sends no message and no datagram, whether or not the timer completes again
C21_DemobilizeEndsTask ==
    [][ /\ PacketHandled("KissDemobilize")
           => /\ msg_for_system' = Append(msg_for_system, "MustDemobilize")
              /\ task'.state = "stopped"
        /\ Count(msg_for_system', "MustDemobilize") <= 1
        /\ task.state = "stopped"
           => /\ sent' = sent
              /\ msg_for_system' = msg_for_system
              /\ task' = task ]_vars

\* C21 witness: the task was demobilized after two polls, and the timer has
\* completed a third time with nobody serving it
C21_Witness_TimerAfterDemobilize ==
    /\ task.state = "stopped"
    /\ msg_for_system # <<>>
    /\ msg_for_system[Len(msg_for_system)] = "MustDemobilize"
    /\ sent = 2
    /\ calls = 2
    /\ poll_wait.pending

\* C22: every response handle_incoming accepts makes the task send exactly
\* one message to the coordinator, NewMeasurement if the update carries a
\* measurement and UpdatedSnapshot if it does not, and the task runs on
C22_AcceptedResponseReported ==
    [][ /\ PacketHandled("NewMeasurement")
           => /\ msg_for_system' = Append(msg_for_system, "NewMeasurement")
              /\ task'.state = "running"
        /\ PacketHandled("BareUpdate")
           => /\ msg_for_system' = Append(msg_for_system, "UpdatedSnapshot")
              /\ task'.state = "running" ]_vars

\* C22 witness: the first poll was answered with a measurement, which is the
\* only message so far, and the task still runs, its socket dropped
C22_Witness_MeasurementReported ==
    /\ op = "accept_packet"
    /\ ret.detail = "NewMeasurement"
    /\ msg_for_system = <<"NewMeasurement">>
    /\ task.state = "running"
    /\ task.socket = "None"

\* This step is run serving the completed timer with handle_poll
PollHandled ==
    /\ op' = "handle_poll"
    /\ calls' = calls + 1

\* handle_poll got as far as the send: the poll message was generated, the
\* clock was read and the socket was set up
SendReached == "socket.send" \in {ret'.effects[i] : i \in DOMAIN ret'.effects}

\* The poll was recorded and the timer reset for the next one, and only then
\* was the one send made
RecordedThenSent ==
    /\ ret'.effects = <<"last_poll_sent", "poll_wait.reset", "socket.send">>
    /\ task'.last_poll_sent = calls'
    /\ poll_wait'.deadline = task'.last_poll_sent + 1
    /\ ~poll_wait'.pending

\* C23 as stated: whenever poll generation, the clock read and the socket
\* setup succeed, exactly one datagram goes out; a send that fails refutes it
C23_Original_OneDatagramPerPoll ==
    [][ (PollHandled /\ SendReached) => (RecordedThenSent /\ sent' = sent + 1) ]_vars

\* C23: each time the timer completes and poll generation, the clock read
\* and the socket setup succeed, the task records last_poll_sent, resets the
\* timer and then makes exactly one send; one datagram goes out if that send
\* succeeds and none if it fails, and a send failing with one of the four
\* network errors ends the task with NetworkIssue. In every other case of
\* handle_poll no datagram goes out
C23_OneSendPerPoll ==
    [][ PollHandled
        => /\ SendReached
              => /\ RecordedThenSent
                 /\ sent' = sent + (IF ret'.detail = "Ok" THEN 1 ELSE 0)
                 /\ ret'.detail \in NetworkGoneErrors
                    <=> (ret'.kind = "NetworkGone" /\ task'.state = "stopped")
           /\ ~SendReached => sent' = sent ]_vars

\* C23 witness: the third poll was recorded and went out, as the first two
\* had, and the socket is open for its answer
C23_Witness_ThirdPollSent ==
    /\ op = "handle_poll"
    /\ ret.kind = "Ok"
    /\ ret.detail = "Ok"
    /\ sent = 3
    /\ task.last_poll_sent = 3
    /\ task.socket = "Some"

\* The task has told the coordinator that the peer is unreachable, and has
\* left its loop
UnreachableSent ==
    /\ task.state = "stopped"
    /\ msg_for_system # <<>>
    /\ msg_for_system[Len(msg_for_system)] = "Unreachable"

\* The task has ended for another reason: a network error, a demobilize, a
\* clock that cannot be read
EndedOtherwise ==
    task.state # "running" /\ ~(op = "handle_poll" /\ ret.kind = "Unreachable")

\* Eight polls in a row without an accepted response empty the reach register
EightUnansweredUnreachable == task.tries >= UnreachableTries => reach = 0

RecvHandled ==
    /\ task.state = "running"
    /\ op' = "accept_packet"
    /\ poll_wait.pending \/ ~poll_wait'.pending
    /\ <<op, ret, task, poll_wait>> # <<op', ret', task', poll_wait'>>

\* This poll got as far as the socket setup, which failed
SocketNotOpened ==
    /\ PollHandled
    /\ ret'.effects = <<"last_poll_sent", "poll_wait.reset">>
    /\ ret'.kind # "Exit"

\* The step ends with one more NetworkIssue, the last message the
\* coordinator gets, and the task out of its loop
TaskGaveUp ==
    /\ msg_for_system' # <<>>
    /\ msg_for_system'[Len(msg_for_system')] = "NetworkIssue"
    /\ Count(msg_for_system', "NetworkIssue") = Count(msg_for_system, "NetworkIssue") + 1
    /\ task'.state = "stopped"

\* The send and receive errors of the runs explored that are not among the
\* four of NetworkGoneErrors
OtherErrors == {"EPERM", "ECONNREFUSED"}

\* C31: a poll whose generation fails with an I/O error, whose socket cannot
\* be opened or whose send fails with one of the four host or network errors,
\* and a receive failing with one of them, make the task send one
\* NetworkIssue and leave its loop, after which it sends no datagram and
\* serves no poll; any other send or receive error leaves it running, with
\* no NetworkIssue sent
C31_NetworkGoneEndsTask ==
    [][ /\ ( /\ PollHandled
             /\ \/ ret'.detail = "Io"
                \/ ret'.detail \in NetworkGoneErrors
                \/ SocketNotOpened )
           => TaskGaveUp
        /\ (RecvHandled /\ ret'.detail \in NetworkGoneErrors) => TaskGaveUp
        /\ ((PollHandled \/ RecvHandled) /\ ret'.detail \in OtherErrors)
           => /\ task'.state = "running"
              /\ Count(msg_for_system', "NetworkIssue") = 0
        /\ Count(msg_for_system', "NetworkIssue") <= 1
        /\ (task.state = "stopped" /\ Count(msg_for_system, "NetworkIssue") = 1)
           => /\ sent' = sent
              /\ calls' = calls
              /\ msg_for_system' = msg_for_system ]_vars

\* C31 witness: the send of the only poll failed with an error that is not
\* one of the four, so the task ran on with its socket; the receive then
\* failed with ENETDOWN, the task reported it and stopped, and the timer has
\* completed again with nobody serving it
C31_Witness_ReceiveNetworkDown ==
    /\ task.state = "stopped"
    /\ op = "accept_packet"
    /\ ret.detail = "ENETDOWN"
    /\ msg_for_system = <<"NetworkIssue">>
    /\ sent = 0
    /\ calls = 1
    /\ poll_wait.pending

\* This step is run accepting a response and forwarding it
ResponseAccepted ==
    /\ RecvHandled
    /\ ret'.detail \in {"NewMeasurement", "BareUpdate"}

\* C32: the task has no socket before its first poll; every poll after which
\* the task runs on has opened one; accepting a response drops it and
\* forwards one message; the socket is served only while there is one; so at
\* most one response is accepted since the latest poll (task.accepted counts
\* them), a second reply to the same poll finding no socket to arrive on
C32_OneResponsePerPoll ==
    [][ /\ calls = 0 => task.socket = "None"
        /\ (PollHandled /\ task'.state = "running") => task'.socket = "Some"
        /\ ResponseAccepted
           => /\ task'.socket = "None"
              /\ Len(msg_for_system') = Len(msg_for_system) + 1
        /\ RecvHandled => task.socket = "Some"
        /\ task'.accepted <= 1 ]_vars

\* C32 witness: two polls, each answered by one accepted response; the
\* second response has just been accepted, the socket is gone again and the
\* task waits for its third poll
C32_Witness_TwoPollsTwoResponses ==
    /\ task.state = "running"
    /\ calls = 2
    /\ task.responses = 2
    /\ task.accepted = 1
    /\ task.socket = "None"
    /\ op = "accept_packet"
    /\ ~poll_wait.pending

\* This step is run receiving a datagram of one of the three kinds the task
\* is to pass over: too short, a receive error that is not one of the four,
\* or a packet the peer rejects without asking to be demobilized
IgnorableReceived ==
    /\ RecvHandled
    /\ ret'.detail \in {"TooShort", "ECONNREFUSED", "Other"}

\* The step sends the coordinator nothing and leaves the task in its loop
\* with its socket
PassedOver ==
    /\ msg_for_system' = msg_for_system
    /\ task'.state = "running"
    /\ task'.socket = "Some"
    /\ task'.accepted = task.accepted

C34_ClockFailureExits ==
    [][ /\ (PollHandled /\ ret'.kind = "Exit")
           => /\ task'.state = "exited"
              /\ ~SendReached
              /\ sent' = sent
              /\ task'.socket = task.socket
              /\ task'.last_send_timestamp = task.last_send_timestamp
        /\ (PollHandled /\ SendReached)
           => /\ task'.last_send_timestamp = "Some"
              /\ ret'.kind # "Exit"
        /\ sent' # sent => (PollHandled /\ SendReached)
        /\ task.state = "exited"
           => /\ sent' = sent
              /\ msg_for_system' = msg_for_system
              /\ task' = task ]_vars

\* C34 witness: the first poll went out; during the second the clock could
\* not be read, and the process has exited with one datagram sent in all
C34_Witness_SecondPollExits ==
    /\ task.state = "exited"
    /\ op = "handle_poll"
    /\ ret.kind = "Exit"
    /\ calls = 2
    /\ sent = 1
    /\ task.last_poll_sent = 2

\* C40: a task that has a socket has a send timestamp, so run never takes the
\* branch that discards a datagram received before anything was sent
C40_SocketImpliesSendTimestamp ==
    /\ task.socket = "Some" => task.last_send_timestamp = "Some"
    /\ ~(op = "accept_packet" /\ ret.kind = "Discard")

\* C40 witness: a short datagram has arrived on the socket of the first
\* poll, whose send timestamp the task holds
C40_Witness_DatagramAfterPoll ==
    /\ task.state = "running"
    /\ task.socket = "Some"
    /\ task.last_send_timestamp = "Some"
    /\ op = "accept_packet"
    /\ ret.kind = "Ignore"
    /\ ret.detail = "TooShort"
    /\ calls = 1

\* This step is a handler that reads the system snapshot: handle_poll, or
\* handle_packet called by run for an accepted datagram
SnapshotRead ==
    \/ PollHandled
    \/ RecvHandled /\ ret'.kind \in {"Ok", "Demobilize"}

----------------------------------------------------------------------------
\* The peer as a whole: every call above, from the freshly built peer

Init == InitPeer

Next == NextReach \/ NextRegister \/ NextFilter

Spec == Init /\ [][Next]_vars

====
